---------------------------- MODULE Spec2Model ----------------------------
(***************************************************************************)
(* Combat core of the roguelike deck-builder: CombatManager (turn phases,  *)
(* card legality, card play, enemy turn), DeckManager (four piles),        *)
(* EnergySystem, the effect primitives and the Player / Enemy entities.    *)
(*                                                                         *)
(* One action per public operation of CombatManager.  The body of every    *)
(* operation is a function from a combat-state record to the set of        *)
(* combat-state records it can produce (random.shuffle is the only source  *)
(* of nondeterminism).  A Python exception ends the operation where it is  *)
(* raised: the mutations made so far stay, the rest of the handler does    *)
(* not run, and the record's "raised" field is set.                        *)
(***************************************************************************)
EXTENDS Integers, Sequences, FiniteSets, TLC

(***************************************************************************)
(* Bounds of the exploration                                               *)
(***************************************************************************)
MaxCombats == 2
MaxTurns == 3

(***************************************************************************)
(* Enumerations                                                            *)
(***************************************************************************)
NOT_STARTED == "NOT_STARTED"
PLAYER_TURN == "PLAYER_TURN"
ENEMY_TURN == "ENEMY_TURN"
COMBAT_END == "COMBAT_END"
CombatPhase == {NOT_STARTED, PLAYER_TURN, ENEMY_TURN, COMBAT_END}

IN_PROGRESS == "IN_PROGRESS"
VICTORY == "VICTORY"
DEFEAT == "DEFEAT"
CombatResult == {IN_PROGRESS, VICTORY, DEFEAT}

TargetType == {"SINGLE_ENEMY", "ALL_ENEMIES", "SELF", "RANDOM_ENEMY", "NONE"}

StatusEffectType ==
    {"STRENGTH", "DEXTERITY", "ARTIFACT", "INTANGIBLE", "THORNS", "METALLICIZE",
     "PLATED_ARMOR", "REGEN", "VULNERABLE", "WEAK", "FRAIL", "POISON", "RITUAL"}

\* Python's None for an optional integer: the empty tuple; <<v>> is the value v.
None == <<>>
Some(v) == <<v>>
IsNone(o) == o = <<>>
Val(o) == o[1]

\* int(x * num / den) for the factors 1.5 and 0.75: truncation toward zero.
Trunc(x, num, den) ==
    IF x >= 0 THEN (x * num) \div den ELSE 0 - (((0 - x) * num) \div den)

Min(a, b) == IF a <= b THEN a ELSE b
Max(a, b) == IF a >= b THEN a ELSE b

(***************************************************************************)
(* Effects (core/effects.py) as data                                       *)
(***************************************************************************)
DamageEffect(d, t) == [kind |-> "Damage", amount |-> d, times |-> t, status |-> "-"]
BlockEffect(b) == [kind |-> "Block", amount |-> b, times |-> 1, status |-> "-"]
DrawEffect(n) == [kind |-> "Draw", amount |-> n, times |-> 1, status |-> "-"]
ApplyStatusEffect(st, n) == [kind |-> "ApplyStatus", amount |-> n, times |-> 1, status |-> st]

(***************************************************************************)
(* Card templates (CardData).  strike, defend, bash, deadly_poison,        *)
(* pommel_strike and cleave are the repository's definitions; flash and    *)
(* wound exercise the exhaust and unplayable flags of CardData.            *)
(***************************************************************************)
CardData(tt, cost, effs, ueffs, ex, unp) ==
    [target_type |-> tt, base_cost |-> cost, base_effects |-> effs,
     upgraded_cost |-> None, upgraded_effects |-> ueffs,
     exhaust |-> ex, ethereal |-> FALSE, innate |-> FALSE, retain |-> FALSE,
     unplayable |-> unp]

STRIKE == CardData("SINGLE_ENEMY", 1, <<DamageEffect(6, 1)>>, <<DamageEffect(9, 1)>>, FALSE, FALSE)
DEFEND == CardData("SELF", 1, <<BlockEffect(5)>>, <<BlockEffect(8)>>, FALSE, FALSE)
BASH ==
    CardData("SINGLE_ENEMY", 2,
             <<DamageEffect(8, 1), ApplyStatusEffect("VULNERABLE", 2)>>,
             <<DamageEffect(10, 1), ApplyStatusEffect("VULNERABLE", 3)>>, FALSE, FALSE)
DEADLY_POISON ==
    CardData("SINGLE_ENEMY", 1, <<ApplyStatusEffect("POISON", 5)>>,
             <<ApplyStatusEffect("POISON", 7)>>, FALSE, FALSE)
POMMEL_STRIKE ==
    CardData("SINGLE_ENEMY", 1, <<DamageEffect(9, 1), DrawEffect(1)>>,
             <<DamageEffect(10, 1), DrawEffect(2)>>, FALSE, FALSE)
CLEAVE == CardData("ALL_ENEMIES", 1, <<DamageEffect(8, 1)>>, <<DamageEffect(11, 1)>>, FALSE, FALSE)
FLASH == CardData("SINGLE_ENEMY", 0, <<DamageEffect(6, 1)>>, <<DamageEffect(9, 1)>>, TRUE, FALSE)
WOUND == CardData("NONE", 0, <<>>, <<>>, FALSE, TRUE)
\* Templates that exercise the ethereal and retain flags of CardData.
DAZED == [CardData("NONE", 0, <<>>, <<>>, FALSE, TRUE) EXCEPT !.ethereal = TRUE]
HOLD == [CardData("SELF", 1, <<BlockEffect(5)>>, <<BlockEffect(8)>>, FALSE, FALSE)
            EXCEPT !.retain = TRUE]
GHOST == [CardData("SELF", 1, <<BlockEffect(5)>>, <<BlockEffect(8)>>, FALSE, FALSE)
            EXCEPT !.ethereal = TRUE, !.retain = TRUE]

IRON_WAVE ==
    CardData("SINGLE_ENEMY", 1, <<DamageEffect(5, 1), BlockEffect(5)>>,
             <<DamageEffect(7, 1), BlockEffect(7)>>, FALSE, FALSE)

CARD_REGISTRY ==
    [id \in {"strike", "defend", "bash", "deadly_poison", "pommel_strike",
             "cleave", "flash", "wound", "dazed", "hold", "ghost", "iron_wave"} |->
        CASE id = "strike" -> STRIKE
          [] id = "iron_wave" -> IRON_WAVE
          [] id = "defend" -> DEFEND
          [] id = "bash" -> BASH
          [] id = "deadly_poison" -> DEADLY_POISON
          [] id = "pommel_strike" -> POMMEL_STRIKE
          [] id = "cleave" -> CLEAVE
          [] id = "flash" -> FLASH
          [] id = "wound" -> WOUND
          [] id = "dazed" -> DAZED
          [] id = "hold" -> HOLD
          [] id = "ghost" -> GHOST]

(***************************************************************************)
(* CardInstance: a heap object.  "data" names the shared template.         *)
(***************************************************************************)
CardInstance(d, up) ==
    [data |-> d, upgraded |-> up, cost_modifier |-> 0,
     cost_this_turn |-> None, cost_this_combat |-> None]

\* CardInstance.copy: a fresh instance with data, upgraded and cost_modifier
\* only; the per-turn and per-combat overrides are not copied.
CardCopy(c) ==
    [data |-> c.data, upgraded |-> c.upgraded, cost_modifier |-> c.cost_modifier,
     cost_this_turn |-> None, cost_this_combat |-> None]

\* CardInstance.cost
CardCost(c) ==
    IF ~IsNone(c.cost_this_turn) THEN Max(0, Val(c.cost_this_turn))
    ELSE IF ~IsNone(c.cost_this_combat) THEN Max(0, Val(c.cost_this_combat))
    ELSE LET d == CARD_REGISTRY[c.data]
             base == IF c.upgraded /\ ~IsNone(d.upgraded_cost)
                     THEN Val(d.upgraded_cost) ELSE d.base_cost
         IN  Max(0, base + c.cost_modifier)

\* CardInstance.effects
CardEffects(c) ==
    IF c.upgraded THEN CARD_REGISTRY[c.data].upgraded_effects
    ELSE CARD_REGISTRY[c.data].base_effects

\* The dataclass-generated CardInstance.__eq__: field-wise comparison.
CardEq(c1, c2) ==
    /\ c1.data = c2.data
    /\ c1.upgraded = c2.upgraded
    /\ c1.cost_modifier = c2.cost_modifier
    /\ c1.cost_this_turn = c2.cost_this_turn
    /\ c1.cost_this_combat = c2.cost_this_combat


(***************************************************************************)
(* Status-effect maps: dict[StatusEffectType, int]                         *)
(***************************************************************************)
EmptyStatus == [k \in {} |-> 0]
StatusGet(m, k) == IF k \in DOMAIN m THEN m[k] ELSE 0
StatusSet(m, k, v) == [x \in (DOMAIN m) \cup {k} |-> IF x = k THEN v ELSE m[x]]
StatusDel(m, k) == [x \in (DOMAIN m) \ {k} |-> m[x]]

\* Variant of StatusDecrement that keeps a kind whose count reached 0.
StatusDecrement_keep_zero(m, k) ==
    IF k \in DOMAIN m THEN StatusSet(m, k, m[k] - 1) ELSE m

\* "self.status_effects[k] -= 1; if ... <= 0: del" for a key that is present.
StatusDecrement(m, k) ==
    IF k \in DOMAIN m
    THEN IF m[k] - 1 <= 0 THEN StatusDel(m, k) ELSE StatusSet(m, k, m[k] - 1)
    ELSE m

RECURSIVE StatusDecrementAll(_, _)
StatusDecrementAll(m, ks) ==
    IF ks = <<>> THEN m
    ELSE StatusDecrementAll(StatusDecrement(m, Head(ks)), Tail(ks))

(***************************************************************************)
(* Enemy (entities/enemy.py)                                               *)
(***************************************************************************)
Intent(ty, dmg, blk) == [intent_type |-> ty, damage |-> dmg, times |-> 1, block |-> blk]

Enemy(hp, maxhp, ai) ==
    [max_hp |-> maxhp, current_hp |-> hp, block |-> 0, status_effects |-> EmptyStatus,
     intent |-> Intent("UNKNOWN", None, None), ai_function |-> ai,
     move_history |-> <<>>, turn_count |-> 0]

\* The AI functions of data/enemies/act1_enemies.py that are deterministic.
cultist_ai(e) ==
    IF e.turn_count = 0 THEN Intent("BUFF", None, None)
    ELSE Intent("ATTACK", Some(6), None)

sentry_ai(e) ==
    IF e.turn_count % 2 = 0 THEN Intent("ATTACK", Some(9), None)
    ELSE Intent("DEBUFF", None, None)

jaw_worm_ai(e) ==
    CASE e.turn_count % 3 = 0 -> Intent("ATTACK", Some(11), None)
      [] e.turn_count % 3 = 1 -> Intent("ATTACK_BUFF", Some(0), Some(6))
      [] OTHER -> Intent("ATTACK_DEFEND", Some(7), Some(5))

\* Enemy.choose_intent
choose_intent(e) ==
    [e EXCEPT !.intent =
        CASE e.ai_function = "cultist" -> cultist_ai(e)
          [] e.ai_function = "sentry" -> sentry_ai(e)
          [] e.ai_function = "jaw_worm" -> jaw_worm_ai(e)
          [] OTHER -> IF e.turn_count % 2 = 0
                      THEN Intent("ATTACK", Some(6), None)
                      ELSE Intent("DEFEND", None, Some(5))]

EntityIsAlive(e) == e.current_hp > 0

\* Enemy.start_turn
EnemyStartTurn(e) == [e EXCEPT !.block = 0]

\* Enemy.gain_block
EnemyGainBlock(e, amount) == IF amount <= 0 THEN e ELSE [e EXCEPT !.block = @ + amount]

\* Enemy.take_damage (not piercing)
EnemyTakeDamage(e, amount) ==
    IF amount <= 0 THEN e
    ELSE LET blocked == Min(e.block, amount)
         IN  [e EXCEPT !.block = @ - blocked,
                       !.current_hp = Max(0, @ - (amount - blocked))]

\* Enemy.heal / Player.heal
EntityHeal(e, amount) == [e EXCEPT !.current_hp = Min(e.max_hp, @ + amount)]

\* Enemy.end_turn: Vulnerable and Weak lose a stack, then poison ticks.
EnemyEndTurn(e) ==
    LET st1 == StatusDecrementAll(e.status_effects, <<"VULNERABLE", "WEAK">>)
        poison == StatusGet(st1, "POISON")
    IN  IF poison > 0
        THEN [e EXCEPT !.status_effects =
                          IF poison - 1 <= 0 THEN StatusDel(st1, "POISON")
                          ELSE StatusSet(st1, "POISON", poison - 1),
                       !.current_hp = Max(0, e.current_hp - poison)]
        ELSE [e EXCEPT !.status_effects = st1]

(***************************************************************************)
(* Relics (entities/relic.py, data/relics/common_relics.py)                *)
(***************************************************************************)
RelicData(id, trigger, counter_based, max_counter) ==
    [id |-> id, trigger |-> trigger, counter_based |-> counter_based,
     max_counter |-> max_counter]

ANCHOR == RelicData("anchor", "COMBAT_START", FALSE, None)
CENTENNIAL_PUZZLE == RelicData("centennial_puzzle", "ON_HP_LOSS", TRUE, Some(1))

\* RelicData.get_event_type: the event kind a trigger is subscribed to, None
\* for a trigger without one
get_event_type(data) ==
    LET mapping == [COMBAT_START |-> "COMBAT_START", COMBAT_END |-> "COMBAT_END",
                    TURN_START |-> "TURN_START", TURN_END |-> "TURN_END",
                    ON_CARD_PLAY |-> "CARD_PLAYED", ON_DAMAGE_DEALT |-> "DAMAGE_DEALT",
                    ON_DAMAGE_TAKEN |-> "DAMAGE_TAKEN", ON_HP_LOSS |-> "HP_LOST",
                    ON_SHUFFLE |-> "SHUFFLE", ON_EXHAUST |-> "CARD_EXHAUSTED"]
    IN  IF data.trigger \in DOMAIN mapping THEN Some(mapping[data.trigger]) ELSE None

RelicInstance(data) ==
    [data |-> data, counter |-> 0, enabled |-> TRUE, event_subscription_id |-> None]

(***************************************************************************)
(* Player (entities/player.py)                                             *)
(***************************************************************************)
Player(hp, maxhp, maxen) ==
    [max_hp |-> maxhp, current_hp |-> hp, max_energy |-> maxen, energy |-> maxen,
     block |-> 0, status_effects |-> EmptyStatus, relics |-> <<>>,
     cards_played_this_combat |-> 0, cards_played_this_turn |-> 0,
     damage_taken_this_combat |-> 0, deck_manager |-> None]

\* Player.has_relic
has_relic(p, relic_id) == \E i \in DOMAIN p.relics : p.relics[i].data.id = relic_id

\* Player.start_combat(), called without a deck manager
PlayerStartCombat(p) ==
    [p EXCEPT !.block = 0, !.status_effects = EmptyStatus,
              !.cards_played_this_combat = 0, !.damage_taken_this_combat = 0,
              !.deck_manager = None]

(***************************************************************************)
(* process_end_of_turn_effects (combat/status_effects.py)                  *)
(***************************************************************************)
\* Variant of process_end_of_turn_effects in which Plated Armor wears off.
process_end_of_turn_effects_plated_decay(e) ==
    LET metallicize == StatusGet(e.status_effects, "METALLICIZE")
        regen == StatusGet(e.status_effects, "REGEN")
        plated == StatusGet(e.status_effects, "PLATED_ARMOR")
        st1 == IF regen > 0
               THEN (IF regen - 1 <= 0 THEN StatusDel(e.status_effects, "REGEN")
                     ELSE StatusSet(e.status_effects, "REGEN", regen - 1))
               ELSE e.status_effects
    IN  [e EXCEPT !.block = @ + metallicize + plated,
                  !.current_hp = @ + Min(regen, e.max_hp - e.current_hp),
                  !.status_effects =
                     StatusDecrementAll(st1, <<"PLATED_ARMOR", "VULNERABLE", "WEAK",
                                               "FRAIL", "INTANGIBLE">>)]

process_end_of_turn_effects(e) ==
    LET metallicize == StatusGet(e.status_effects, "METALLICIZE")
        e1 == IF metallicize > 0 THEN [e EXCEPT !.block = @ + metallicize] ELSE e
        regen == StatusGet(e1.status_effects, "REGEN")
        e2 == IF regen > 0
              THEN [e1 EXCEPT !.current_hp = @ + Min(regen, e1.max_hp - e1.current_hp),
                              !.status_effects =
                                 IF regen - 1 <= 0 THEN StatusDel(@, "REGEN")
                                 ELSE StatusSet(@, "REGEN", regen - 1)]
              ELSE e1
        plated == StatusGet(e2.status_effects, "PLATED_ARMOR")
        e3 == IF plated > 0 THEN [e2 EXCEPT !.block = @ + plated] ELSE e2
    IN  [e3 EXCEPT !.status_effects =
            StatusDecrementAll(@, <<"VULNERABLE", "WEAK", "FRAIL", "INTANGIBLE">>)]

(***************************************************************************)
(* EnergySystem (combat/energy_system.py)                                  *)
(***************************************************************************)
EnergySystem == [current_energy |-> 0, max_energy |-> 3, bonus_energy_next_turn |-> 0]

EnergyInitialize(es, p) ==
    [es EXCEPT !.max_energy = p.max_energy, !.current_energy = p.max_energy,
               !.bonus_energy_next_turn = 0]

\* Variant of EnergyStartTurn that adds the refill to the energy left over.
EnergyStartTurn_carry_over(es) ==
    [es EXCEPT !.current_energy = @ + es.max_energy + es.bonus_energy_next_turn,
               !.bonus_energy_next_turn = 0]

EnergyStartTurn(es) ==
    [es EXCEPT !.current_energy = es.max_energy + es.bonus_energy_next_turn,
               !.bonus_energy_next_turn = 0]

\* Variant of EnergySpend that subtracts whatever it is given.
EnergySpend_unchecked(es, amount) == [es EXCEPT !.current_energy = @ - amount]

\* EnergySystem.spend: a negative or unaffordable amount changes nothing.
EnergySpend(es, amount) ==
    IF amount < 0 THEN es
    ELSE IF es.current_energy >= amount
         THEN [es EXCEPT !.current_energy = @ - amount]
         ELSE es

\* The value EnergySystem.spend returns
EnergySpendReturn(es, amount) ==
    IF amount < 0 THEN FALSE
    ELSE es.current_energy >= amount

\* EnergySystem.gain
EnergyGain(es, amount) == [es EXCEPT !.current_energy = @ + amount]

\* EnergySystem.gain_next_turn
EnergyGainNextTurn(es, amount) == [es EXCEPT !.bonus_energy_next_turn = @ + amount]

\* EnergySystem.end_turn only reports the unspent energy.
EnergyEndTurn(es) == es

(***************************************************************************)
(* The event bus.  _handlers maps an event kind to the list of (priority,  *)
(* handler) pairs that emit walks; _handler_ids maps a subscription id to  *)
(* the (kind, handler) pair it was given for.  A handler is a function     *)
(* object, compared by identity.                                           *)
(***************************************************************************)
EventBus == [handlers |-> [k \in {} |-> <<>>], handler_ids |-> [i \in {} |-> <<>>],
             next_id |-> 0]

\* "lst.sort(key=lambda x: -x[0])": a stable sort, higher priority first
RECURSIVE SortByPriority(_)
SortByPriority(lst) ==
    IF lst = <<>> THEN <<>>
    ELSE LET rest == SortByPriority(SubSeq(lst, 1, Len(lst) - 1))
             e == lst[Len(lst)]
             n == Cardinality({i \in 1..Len(rest) : rest[i][1] >= e[1]})
         IN  SubSeq(rest, 1, n) \o <<e>> \o SubSeq(rest, n + 1, Len(rest))

\* bus.subscribe(event_type, handler, priority): the bus afterwards; the id
\* returned is the bus's next_id before the call
subscribe(bus, event_type, handler, priority) ==
    LET old == IF event_type \in DOMAIN bus.handlers THEN bus.handlers[event_type]
               ELSE <<>>
        handler_id == bus.next_id
    IN  [handlers |-> [k \in (DOMAIN bus.handlers) \cup {event_type} |->
                          IF k = event_type
                          THEN SortByPriority(Append(old, <<priority, handler>>))
                          ELSE bus.handlers[k]],
         handler_ids |-> [i \in (DOMAIN bus.handler_ids) \cup {handler_id} |->
                             IF i = handler_id THEN <<event_type, handler>>
                             ELSE bus.handler_ids[i]],
         next_id |-> bus.next_id + 1]

\* bus.unsubscribe(handler_id): the bus afterwards
unsubscribe(bus, handler_id) ==
    IF handler_id \notin DOMAIN bus.handler_ids THEN bus
    ELSE LET event_type == bus.handler_ids[handler_id][1]
             handler == bus.handler_ids[handler_id][2]
             Other(e) == e[2] # handler
         IN  [handlers |-> [k \in DOMAIN bus.handlers |->
                               IF k = event_type
                               THEN SelectSeq(bus.handlers[k], Other)
                               ELSE bus.handlers[k]],
              handler_ids |-> [i \in (DOMAIN bus.handler_ids) \ {handler_id} |->
                                  bus.handler_ids[i]],
              next_id |-> bus.next_id]

\* the value bus.unsubscribe(handler_id) returns
unsubscribe_return(bus, handler_id) == handler_id \in DOMAIN bus.handler_ids

\* bus.emit(event): the handlers called, in the order of the calls
emit(bus, event_type) ==
    IF event_type \notin DOMAIN bus.handlers THEN <<>>
    ELSE [i \in 1..Len(bus.handlers[event_type]) |-> bus.handlers[event_type][i][2]]

\* bus.clear()
clear(bus) == EventBus

(***************************************************************************)
(* Handlers that emit.  A handler is any callable; one that emits on the   *)
(* bus it is called from makes emit re-enter itself on the Python call     *)
(* stack.  Handler "g", called for COMBAT_START, emits HP_LOST; every      *)
(* other call of a handler only records itself.  The trace of an emit      *)
(* lists the calls and returns of the handlers with the depth of the emit  *)
(* that made them.                                                         *)
(***************************************************************************)
handler_emits(handler, event_type) ==
    IF handler = "g" /\ event_type = "COMBAT_START" THEN Some("HP_LOST") ELSE None

TraceEntry(what, handler, event_type, depth) ==
    [what |-> what, handler |-> handler, event_type |-> event_type, depth |-> depth]

\* Variant of emit in which an event emitted by a handler waits until the
\* handlers of the running event have all returned.
emit_trace_queued(bus, event_type, depth) ==
    LET hs == emit(bus, event_type)
        RECURSIVE Outer(_)
        Outer(i) ==
            IF i > Len(hs) THEN <<>>
            ELSE <<TraceEntry("call", hs[i], event_type, depth),
                   TraceEntry("return", hs[i], event_type, depth)>> \o Outer(i + 1)
        RECURSIVE Inner(_, _)
        Inner(ns, j) ==
            IF j > Len(ns) THEN <<>>
            ELSE <<TraceEntry("call", ns[j], "HP_LOST", depth + 1),
                   TraceEntry("return", ns[j], "HP_LOST", depth + 1)>> \o Inner(ns, j + 1)
        RECURSIVE Queued(_)
        Queued(i) ==
            IF i > Len(hs) THEN <<>>
            ELSE (IF IsNone(handler_emits(hs[i], event_type)) THEN <<>>
                  ELSE Inner(emit(bus, Val(handler_emits(hs[i], event_type))), 1))
                 \o Queued(i + 1)
    IN  Outer(1) \o Queued(1)

\* "for _, handler in self._handlers[event.event_type]: handler(event)", with
\* the emits the handlers make: handler(event) returns when its own emit has
\* returned.
RECURSIVE emit_trace(_, _, _)
emit_trace(bus, event_type, depth) ==
    LET hs == emit(bus, event_type)
        RECURSIVE Loop(_)
        Loop(i) ==
            IF i > Len(hs) THEN <<>>
            ELSE <<TraceEntry("call", hs[i], event_type, depth)>>
                 \o (IF IsNone(handler_emits(hs[i], event_type)) THEN <<>>
                     ELSE emit_trace(bus, Val(handler_emits(hs[i], event_type)), depth + 1))
                 \o <<TraceEntry("return", hs[i], event_type, depth)>>
                 \o Loop(i + 1)
    IN  Loop(1)

(***************************************************************************)
(* The combat-state record the operations work on.  Besides the fields of  *)
(* CombatState / DeckManager / EnergySystem it carries the card heap and   *)
(* the trace of the running call: the events emitted, the values assigned  *)
(* to phase and result, the enemies whose turn was started, and whether    *)
(* an exception left the call.                                             *)
(***************************************************************************)
MAX_HAND_SIZE == 10
DEFAULT_DRAW_COUNT == 5

\* event_bus.emit(ev): the event and the handlers the bus calls for it
Emit(s, ev) ==
    [s EXCEPT !.events = Append(@, ev),
              !.invoked = @ \o emit(s.event_bus, ev.type)]
Event(ty, arg) == [type |-> ty, arg |-> arg]

SetPhase(s, ph) == [s EXCEPT !.phase = ph, !.phases = Append(@, ph)]
SetResult(s, r) == [s EXCEPT !.result = r, !.results = Append(@, r)]

\* CombatState.get_living_enemies, as the list of positions in state.enemies
LivingEnemies(s) ==
    SelectSeq([i \in 1..Len(s.enemies) |-> i], LAMBDA i : EntityIsAlive(s.enemies[i]))

(***************************************************************************)
(* DeckManager (deck/deck_manager.py)                                      *)
(***************************************************************************)
\* random.shuffle: any arrangement of the list
ShuffleOutcomes(pile) ==
    {[i \in 1..Len(pile) |-> pile[p[i]]] : p \in Permutations(1..Len(pile))}

\* DeckManager.shuffle_draw_pile
shuffle_draw_pile(s) ==
    {Emit([s EXCEPT !.draw_pile = order], Event("SHUFFLE", 0)) :
        order \in ShuffleOutcomes(s.draw_pile)}

\* Variant of reshuffle_discard_into_draw that leaves the discard pile as it was.
reshuffle_keeping_discard(s) ==
    shuffle_draw_pile([s EXCEPT !.draw_pile = @ \o s.discard_pile])

\* Variant of reshuffle_discard_into_draw that also takes the exhaust pile back.
reshuffle_with_exhaust(s) ==
    shuffle_draw_pile([s EXCEPT !.draw_pile = @ \o s.discard_pile \o s.exhaust_pile,
                                !.discard_pile = <<>>, !.exhaust_pile = <<>>])

\* DeckManager.reshuffle_discard_into_draw
reshuffle_discard_into_draw(s) ==
    shuffle_draw_pile([s EXCEPT !.draw_pile = @ \o s.discard_pile,
                                !.discard_pile = <<>>])

\* "card = self.draw_pile.pop(); self.hand.append(card)" and the CARD_DRAWN event
DrawTop(s) ==
    LET card == s.draw_pile[Len(s.draw_pile)]
    IN  Emit([s EXCEPT !.draw_pile = SubSeq(@, 1, Len(@) - 1),
                       !.hand = Append(@, card),
                       !.drawn = Append(@, card)],
             Event("CARD_DRAWN", card))

\* Variant of draw without the hand-size test.
RECURSIVE draw_uncapped(_, _)
draw_uncapped(s, count) ==
    IF count <= 0 THEN {s}
    ELSE IF s.draw_pile = <<>>
         THEN IF s.discard_pile = <<>> THEN {s}
              ELSE UNION {draw_uncapped(DrawTop(r), count - 1) :
                             r \in reshuffle_discard_into_draw(s)}
         ELSE draw_uncapped(DrawTop(s), count - 1)

\* DeckManager.draw
RECURSIVE draw(_, _)
draw(s, count) ==
    IF count <= 0 THEN {s}
    ELSE IF Len(s.hand) >= s.max_hand_size THEN {s}
    ELSE IF s.draw_pile = <<>>
         THEN IF s.discard_pile = <<>> THEN {s}
              ELSE UNION {draw(DrawTop(r), count - 1) : r \in reshuffle_discard_into_draw(s)}
         ELSE draw(DrawTop(s), count - 1)

\* Variant of initialize_from_deck that puts the master deck's own objects
\* into the draw pile instead of copies.
initialize_without_copy(s, master) ==
    shuffle_draw_pile([s EXCEPT !.draw_pile = master, !.hand = <<>>,
                                !.discard_pile = <<>>, !.exhaust_pile = <<>>])

\* DeckManager.initialize_from_deck: copies of the master deck's cards are
\* allocated behind the master deck's objects in the heap.
initialize_from_deck(s, master) ==
    LET n == Len(master)
        heap == [o \in 1..(2 * n) |->
                    IF o <= n THEN s.cards[o] ELSE CardCopy(s.cards[master[o - n]])]
    IN  shuffle_draw_pile([s EXCEPT !.cards = heap,
                                    !.draw_pile = [i \in 1..n |-> n + i],
                                    !.hand = <<>>, !.discard_pile = <<>>,
                                    !.exhaust_pile = <<>>])

\* DeckManager.add_card_to_hand: a full hand sends the card to the discard pile
add_card_to_hand(s, card) ==
    IF Len(s.hand) >= s.max_hand_size
    THEN [s EXCEPT !.discard_pile = Append(@, card)]
    ELSE [s EXCEPT !.hand = Append(@, card)]

\* DeckManager.clear_turn_modifiers: hand, draw pile and discard pile only
clear_turn_modifiers(s) ==
    LET touched == {s.hand[i] : i \in 1..Len(s.hand)}
                     \cup {s.draw_pile[i] : i \in 1..Len(s.draw_pile)}
                     \cup {s.discard_pile[i] : i \in 1..Len(s.discard_pile)}
    IN  [s EXCEPT !.cards = [o \in DOMAIN @ |->
                                IF o \in touched
                                THEN [@[o] EXCEPT !.cost_this_turn = None]
                                ELSE @[o]]]

\* Variant of the loop of end_turn that tests the retain flag first.
RECURSIVE EndTurnLoop_retain_first(_, _, _)
EndTurnLoop_retain_first(s, rest, retained) ==
    IF rest = <<>> THEN [s EXCEPT !.hand = retained]
    ELSE LET card == Head(rest)
             d == CARD_REGISTRY[s.cards[card].data]
         IN  IF d.retain
             THEN EndTurnLoop_retain_first(s, Tail(rest), Append(retained, card))
             ELSE IF d.ethereal
                  THEN EndTurnLoop_retain_first(
                          Emit([s EXCEPT !.exhaust_pile = Append(@, card)],
                               Event("CARD_EXHAUSTED", card)),
                          Tail(rest), retained)
                  ELSE EndTurnLoop_retain_first(
                          [s EXCEPT !.discard_pile = Append(@, card),
                                    !.discarded = Append(@, card)],
                          Tail(rest), retained)

\* The loop of DeckManager.end_turn over the hand, card by card.
RECURSIVE EndTurnLoop(_, _, _)
EndTurnLoop(s, rest, retained) ==
    IF rest = <<>> THEN [s EXCEPT !.hand = retained]
    ELSE LET card == Head(rest)
             d == CARD_REGISTRY[s.cards[card].data]
         IN  IF d.ethereal
             THEN EndTurnLoop(Emit([s EXCEPT !.exhaust_pile = Append(@, card)],
                                   Event("CARD_EXHAUSTED", card)),
                              Tail(rest), retained)
             ELSE IF d.retain
                  THEN EndTurnLoop(s, Tail(rest), Append(retained, card))
                  ELSE EndTurnLoop([s EXCEPT !.discard_pile = Append(@, card),
                                             !.discarded = Append(@, card)],
                                   Tail(rest), retained)

\* DeckManager.end_turn
deck_end_turn(s) == clear_turn_modifiers(EndTurnLoop(s, s.hand, <<>>))

(***************************************************************************)
(* Effect targets.  An entity reference is <<"P", 0>> for the player and   *)
(* <<"E", i>> for state.enemies[i].  An effect target is None, one entity  *)
(* or a list of entities.                                                  *)
(***************************************************************************)
PlayerRef == <<"P", 0>>
EnemyRef(i) == <<"E", i>>
NoTarget == [kind |-> "none", ref |-> PlayerRef, list |-> <<>>]
EntityTarget(r) == [kind |-> "entity", ref |-> r, list |-> <<>>]
ListTarget(rs) == [kind |-> "list", ref |-> PlayerRef, list |-> rs]

GetEntity(s, r) == IF r[1] = "P" THEN s.player ELSE s.enemies[r[2]]
PutEntity(s, r, e) ==
    IF r[1] = "P" THEN [s EXCEPT !.player = e] ELSE [s EXCEPT !.enemies[r[2]] = e]

\* "targets = [target] if not isinstance(target, list) else target", with the
\* None entries skipped by the loops
TargetList(target) ==
    CASE target.kind = "list" -> target.list
      [] target.kind = "entity" -> <<target.ref>>
      [] OTHER -> <<>>

(***************************************************************************)
(* DamageEffect.apply (core/effects.py)                                    *)
(***************************************************************************)
\* Variant of DamageHit that applies Weak before Vulnerable.
DamageHit_weak_first(s, damage, source, t) ==
    LET tgt == GetEntity(s, t)
        d1 == IF StatusGet(GetEntity(s, source).status_effects, "WEAK") > 0
              THEN Trunc(damage, 3, 4) ELSE damage
        actual == IF StatusGet(tgt.status_effects, "VULNERABLE") > 0
                  THEN Trunc(d1, 3, 2) ELSE d1
        blocked == Min(tgt.block, actual)
    IN  PutEntity(s, t, [tgt EXCEPT !.block = @ - blocked,
                                    !.current_hp = Max(0, @ - (actual - blocked))])

\* One hit on one target: Vulnerable on the target, then Weak on the source,
\* then block absorption, then HP loss floored at 0.
DamageHit(s, damage, source, t) ==
    LET tgt == GetEntity(s, t)
        d1 == IF StatusGet(tgt.status_effects, "VULNERABLE") > 0
              THEN Trunc(damage, 3, 2) ELSE damage
        actual == IF StatusGet(GetEntity(s, source).status_effects, "WEAK") > 0
                  THEN Trunc(d1, 3, 4) ELSE d1
        blocked == Min(tgt.block, actual)
    IN  PutEntity(s, t, [tgt EXCEPT !.block = @ - blocked,
                                    !.current_hp = Max(0, @ - (actual - blocked))])

RECURSIVE DamageTargets(_, _, _, _)
DamageTargets(s, damage, source, ts) ==
    IF ts = <<>> THEN s
    ELSE DamageTargets(DamageHit(s, damage, source, Head(ts)), damage, source, Tail(ts))

RECURSIVE DamageTimes(_, _, _, _, _)
DamageTimes(s, damage, source, ts, k) ==
    IF k <= 0 THEN s
    ELSE DamageTimes(DamageTargets(s, damage, source, ts), damage, source, ts, k - 1)

DamageApply(s, eff, source, target) ==
    LET damage == eff.amount + StatusGet(GetEntity(s, source).status_effects, "STRENGTH")
    IN  DamageTimes(s, damage, source, TargetList(target), eff.times)

(***************************************************************************)
(* BlockEffect.apply: the block goes to the target when one entity is      *)
(* given, to the source when the target is None or a list.                 *)
(***************************************************************************)
\* Variant of BlockApply that applies Frail to the base amount before adding
\* Dexterity.
BlockApply_frail_first(s, eff, source, target) ==
    LET src == GetEntity(s, source)
        dexterity == StatusGet(src.status_effects, "DEXTERITY")
        block == IF StatusGet(src.status_effects, "FRAIL") > 0
                 THEN Trunc(eff.amount, 3, 4) + dexterity
                 ELSE eff.amount + dexterity
        actual_target == IF target.kind = "entity" THEN target.ref ELSE source
    IN  PutEntity(s, actual_target,
                  [GetEntity(s, actual_target) EXCEPT !.block = @ + block])

BlockApply(s, eff, source, target) ==
    LET src == GetEntity(s, source)
        b0 == eff.amount + StatusGet(src.status_effects, "DEXTERITY")
        block == IF StatusGet(src.status_effects, "FRAIL") > 0 THEN Trunc(b0, 3, 4) ELSE b0
        actual_target == IF target.kind = "entity" THEN target.ref ELSE source
    IN  PutEntity(s, actual_target,
                  [GetEntity(s, actual_target) EXCEPT !.block = @ + block])

(***************************************************************************)
(* HealEffect.apply: heals the target when one entity is given, the source *)
(* when the target is None or a list.                                      *)
(***************************************************************************)
GainEnergyEffect(n) == [kind |-> "GainEnergy", amount |-> n, times |-> 1, status |-> "-"]
HealEffect(h) == [kind |-> "Heal", amount |-> h, times |-> 1, status |-> "-"]

\* Variant of HealApply without the cap at max_hp.
HealApply_uncapped(s, eff, source, target) ==
    LET actual_target == IF target.kind = "entity" THEN target.ref ELSE source
        tgt == GetEntity(s, actual_target)
    IN  PutEntity(s, actual_target, [tgt EXCEPT !.current_hp = @ + eff.amount])

HealApply(s, eff, source, target) ==
    LET actual_target == IF target.kind = "entity" THEN target.ref ELSE source
        tgt == GetEntity(s, actual_target)
    IN  PutEntity(s, actual_target,
                  [tgt EXCEPT !.current_hp = Min(tgt.max_hp, @ + eff.amount)])

(***************************************************************************)
(* ApplyStatusEffect.apply                                                 *)
(***************************************************************************)
IsDebuff(st) == st \in {"VULNERABLE", "WEAK", "FRAIL", "POISON"}

\* Variant of ApplyStatusOne that replaces the stacks instead of adding to them.
ApplyStatusOne_overwrite(s, eff, t) ==
    LET tgt == GetEntity(s, t)
        artifact == StatusGet(tgt.status_effects, "ARTIFACT")
    IN  IF IsDebuff(eff.status) /\ artifact > 0
        THEN PutEntity(s, t, [tgt EXCEPT !.status_effects =
                                 IF artifact - 1 <= 0 THEN StatusDel(@, "ARTIFACT")
                                 ELSE StatusSet(@, "ARTIFACT", artifact - 1)])
        ELSE PutEntity(s, t, [tgt EXCEPT !.status_effects =
                                 StatusSet(@, eff.status, eff.amount)])

ApplyStatusOne(s, eff, t) ==
    LET tgt == GetEntity(s, t)
        artifact == StatusGet(tgt.status_effects, "ARTIFACT")
    IN  IF IsDebuff(eff.status) /\ artifact > 0
        THEN PutEntity(s, t, [tgt EXCEPT !.status_effects =
                                 IF artifact - 1 <= 0 THEN StatusDel(@, "ARTIFACT")
                                 ELSE StatusSet(@, "ARTIFACT", artifact - 1)])
        ELSE PutEntity(s, t, [tgt EXCEPT !.status_effects =
                                 StatusSet(@, eff.status, StatusGet(@, eff.status) + eff.amount)])

RECURSIVE ApplyStatusTargets(_, _, _)
ApplyStatusTargets(s, eff, ts) ==
    IF ts = <<>> THEN s
    ELSE ApplyStatusTargets(ApplyStatusOne(s, eff, Head(ts)), eff, Tail(ts))

\* Effect.apply, by effect kind; DrawEffect delegates to DeckManager.draw.
\* GainEnergyEffect.apply: "if isinstance(source, Player): source.energy += amount"
GainEnergyApply(s, eff, source) ==
    IF source[1] = "P" THEN [s EXCEPT !.player.energy = @ + eff.amount] ELSE s

EffectApply(s, eff, source, target) ==
    CASE eff.kind = "Damage" -> {DamageApply(s, eff, source, target)}
      [] eff.kind = "Block" -> {BlockApply(s, eff, source, target)}
      [] eff.kind = "Draw" -> draw(s, eff.amount)
      [] eff.kind = "ApplyStatus" -> {ApplyStatusTargets(s, eff, TargetList(target))}
      [] eff.kind = "GainEnergy" -> {GainEnergyApply(s, eff, source)}

\* "for effect in card.effects: effect.apply(state, player, effect_target)"
RECURSIVE ApplyEffects(_, _, _)
ApplyEffects(s, effs, target) ==
    IF effs = <<>> THEN {s}
    ELSE UNION {ApplyEffects(r, Tail(effs), target) :
                   r \in EffectApply(s, Head(effs), PlayerRef, target)}

(***************************************************************************)
(* Player.take_damage.  After the HP loss the method builds the HP_LOST    *)
(* event with GameEvent.hp_lost(self, remaining, self._deck_manager); the  *)
(* factory takes (entity, amount) only, so the call raises TypeError       *)
(* whenever remaining > 0, after block and HP were already updated.        *)
(***************************************************************************)
PlayerTakeDamage(s, amount) ==
    IF amount <= 0 THEN s
    ELSE LET blocked == Min(s.player.block, amount)
             remaining == amount - blocked
             s1 == [s EXCEPT !.player.block = @ - blocked,
                             !.player.current_hp = Max(0, @ - remaining),
                             !.player.damage_taken_this_combat = @ + remaining]
         IN  IF remaining > 0 THEN [s1 EXCEPT !.raised = TRUE] ELSE s1

\* "for _ in range(self.intent.times): player.take_damage(damage)"
RECURSIVE IntentHits(_, _, _)
IntentHits(s, damage, k) ==
    IF k <= 0 \/ s.raised THEN s
    ELSE IntentHits(PlayerTakeDamage(s, damage), damage, k - 1)

\* Variant of execute_intent that applies the player's Vulnerable before the
\* enemy's Weak.
execute_intent_vulnerable_first(s, i) ==
    LET e == s.enemies[i]
        d0 == Val(e.intent.damage) + StatusGet(e.status_effects, "STRENGTH")
        d1 == IF StatusGet(s.player.status_effects, "VULNERABLE") > 0
              THEN Trunc(d0, 3, 2) ELSE d0
        d2 == IF StatusGet(e.status_effects, "WEAK") > 0 THEN Trunc(d1, 3, 4) ELSE d1
        s1 == IF IsNone(e.intent.damage) THEN s
              ELSE IntentHits(s, Max(0, d2), e.intent.times)
        e1 == IF IsNone(e.intent.block) THEN s1.enemies[i]
              ELSE EnemyGainBlock(s1.enemies[i], Val(e.intent.block))
    IN  IF s1.raised THEN s1
        ELSE [s1 EXCEPT !.enemies[i] =
                 [e1 EXCEPT !.move_history = Append(@, e.intent.intent_type),
                            !.turn_count = @ + 1]]

\* Enemy.execute_intent
execute_intent(s, i) ==
    LET e == s.enemies[i]
        d0 == Val(e.intent.damage) + StatusGet(e.status_effects, "STRENGTH")
        d1 == IF StatusGet(e.status_effects, "WEAK") > 0 THEN Trunc(d0, 3, 4) ELSE d0
        d2 == IF StatusGet(s.player.status_effects, "VULNERABLE") > 0
              THEN Trunc(d1, 3, 2) ELSE d1
        s1 == IF IsNone(e.intent.damage) THEN s
              ELSE IntentHits(s, Max(0, d2), e.intent.times)
        e1 == IF IsNone(e.intent.block) THEN s1.enemies[i]
              ELSE EnemyGainBlock(s1.enemies[i], Val(e.intent.block))
    IN  IF s1.raised THEN s1
        ELSE [s1 EXCEPT !.enemies[i] =
                 [e1 EXCEPT !.move_history = Append(@, e.intent.intent_type),
                            !.turn_count = @ + 1]]

(***************************************************************************)
(* CombatManager (combat/combat_manager.py)                                *)
(***************************************************************************)
\* CombatManager._start_player_turn
start_player_turn(s) ==
    LET s1 == SetPhase([s EXCEPT !.turn_number = @ + 1], PLAYER_TURN)
        es == EnergyStartTurn(s1.energy_system)
        s2 == [s1 EXCEPT !.player.block = 0, !.energy_system = es,
                         !.player.energy = es.current_energy]
    IN  {[Emit(r, Event("TURN_START", r.turn_number))
             EXCEPT !.player.cards_played_this_turn = 0] : r \in draw(s2, s.draw_count)}

\* CombatManager._check_enemy_deaths: one ENEMY_DIED per enemy that is not alive
RECURSIVE check_enemy_deaths(_, _)
check_enemy_deaths(s, i) ==
    IF i > Len(s.enemies) THEN s
    ELSE check_enemy_deaths(IF EntityIsAlive(s.enemies[i]) THEN s
                            ELSE Emit(s, Event("ENEMY_DIED", i)), i + 1)

\* Variant of _check_combat_end without the victory test.
check_combat_end_defeat_only(s) ==
    IF ~EntityIsAlive(s.player)
    THEN Emit(SetPhase(SetResult(s, DEFEAT), COMBAT_END), Event("COMBAT_END", 0))
    ELSE s

\* CombatManager._check_combat_end: victory is tested before defeat
check_combat_end(s) ==
    IF LivingEnemies(s) = <<>>
    THEN Emit(SetPhase(SetResult(s, VICTORY), COMBAT_END), Event("COMBAT_END", 1))
    ELSE IF ~EntityIsAlive(s.player)
         THEN Emit(SetPhase(SetResult(s, DEFEAT), COMBAT_END), Event("COMBAT_END", 0))
         ELSE s

\* "card in self.state.hand": list membership by ==
InHand(s, card) == \E i \in 1..Len(s.hand) : CardEq(s.cards[s.hand[i]], s.cards[card])

\* Variant of can_play_card without the phase test.
can_play_card_any_phase(active, s, card, target) ==
    IF ~active THEN "No active combat"
    ELSE IF ~InHand(s, card) THEN "Card not in hand"
    ELSE IF CARD_REGISTRY[s.cards[card].data].unplayable THEN "Card is unplayable"
    ELSE IF s.energy_system.current_energy < CardCost(s.cards[card])
         THEN "Not enough energy"
    ELSE IF CARD_REGISTRY[s.cards[card].data].target_type = "SINGLE_ENEMY"
         THEN IF IsNone(target) THEN "Must select a target"
              ELSE IF ~EntityIsAlive(s.enemies[Val(target)]) THEN "Invalid target"
              ELSE ""
    ELSE ""

\* CombatManager.can_play_card: the reason of the refusal, "" when playable.
\* target is None or Some(i), the position of an enemy of this combat.
can_play_card(active, s, card, target) ==
    IF ~active THEN "No active combat"
    ELSE IF s.phase # PLAYER_TURN THEN "Not player's turn"
    ELSE IF ~InHand(s, card) THEN "Card not in hand"
    ELSE IF CARD_REGISTRY[s.cards[card].data].unplayable THEN "Card is unplayable"
    ELSE IF s.energy_system.current_energy < CardCost(s.cards[card])
         THEN "Not enough energy"
    ELSE IF CARD_REGISTRY[s.cards[card].data].target_type = "SINGLE_ENEMY"
         THEN IF IsNone(target) THEN "Must select a target"
              ELSE IF ~EntityIsAlive(s.enemies[Val(target)]) THEN "Invalid target"
              ELSE ""
    ELSE ""

\* Variant of list.remove that drops every element == x (a filter instead of
\* a single removal).
RECURSIVE ListRemoveAll(_, _, _)
ListRemoveAll(heap, pile, card) ==
    IF pile = <<>> THEN <<>>
    ELSE IF CardEq(heap[Head(pile)], heap[card])
         THEN ListRemoveAll(heap, Tail(pile), card)
         ELSE <<Head(pile)>> \o ListRemoveAll(heap, Tail(pile), card)

\* list.remove(x): drops the first element that == x
RECURSIVE ListRemove(_, _, _)
ListRemove(heap, pile, card) ==
    IF pile = <<>> THEN <<>>
    ELSE IF CardEq(heap[Head(pile)], heap[card]) THEN Tail(pile)
         ELSE <<Head(pile)>> \o ListRemove(heap, Tail(pile), card)

\* "card in pile": list membership by ==
InPile(heap, pile, card) == \E i \in 1..Len(pile) : CardEq(heap[pile[i]], heap[card])

\* DeckManager.move_card_to_hand: refused when the hand is full or the card is
\* not in the named pile
move_card_to_hand(s, card, from_pile) ==
    IF Len(s.hand) >= s.max_hand_size THEN s
    ELSE IF from_pile = "draw" /\ InPile(s.cards, s.draw_pile, card)
         THEN [s EXCEPT !.draw_pile = ListRemove(s.cards, @, card),
                        !.hand = Append(@, card)]
    ELSE IF from_pile = "discard" /\ InPile(s.cards, s.discard_pile, card)
         THEN [s EXCEPT !.discard_pile = ListRemove(s.cards, @, card),
                        !.hand = Append(@, card)]
    ELSE s

\* "Determine targets for effects" in play_card
EffectTarget(s, card, target) ==
    LET tt == CARD_REGISTRY[s.cards[card].data].target_type
    IN  CASE tt = "SINGLE_ENEMY" -> EntityTarget(EnemyRef(Val(target)))
          [] tt = "ALL_ENEMIES" ->
                ListTarget([k \in 1..Len(LivingEnemies(s)) |-> EnemyRef(LivingEnemies(s)[k])])
          [] tt = "SELF" -> EntityTarget(PlayerRef)
          [] OTHER -> NoTarget

\* "Handle card destination" in play_card
CardDestination(s, card) ==
    IF CARD_REGISTRY[s.cards[card].data].exhaust
    THEN [s EXCEPT !.exhaust_pile = Append(@, card)]
    ELSE [s EXCEPT !.discard_pile = Append(@, card)]

\* The trace of a play keeps the objects that are in the four piles when the
\* effects start to resolve and when CARD_PLAYED is emitted.
Seen(s) ==
    [s EXCEPT !.seen = Append(@, {s.hand[i] : i \in 1..Len(s.hand)}
                                    \cup {s.draw_pile[i] : i \in 1..Len(s.draw_pile)}
                                    \cup {s.discard_pile[i] : i \in 1..Len(s.discard_pile)}
                                    \cup {s.exhaust_pile[i] : i \in 1..Len(s.exhaust_pile)})]

\* CombatManager.play_card after can_play_card accepted the card
play_card(s, card, target) ==
    LET es == EnergySpend(s.energy_system, CardCost(s.cards[card]))
        s1 == [s EXCEPT !.energy_system = es, !.player.energy = es.current_energy]
        s2 == [s1 EXCEPT !.hand = ListRemove(s1.cards, @, card)]
    IN  {check_combat_end(check_enemy_deaths(
            [CardDestination(Emit(Seen(r), Event("CARD_PLAYED", card)), card)
                EXCEPT !.player.cards_played_this_turn = @ + 1,
                       !.player.cards_played_this_combat = @ + 1], 1)) :
         r \in ApplyEffects(Seen(s2), CardEffects(s2.cards[card]),
                            EffectTarget(s2, card, target))}

\* The loop of _execute_enemy_turn over the enemies alive when the turn began.
\* An exception, or the player's death, leaves the loop and the handler.
RECURSIVE EnemyLoop(_, _, _)
EnemyLoop(s, living, k) ==
    IF k > Len(living) THEN s
    ELSE LET i == living[k]
             s1 == [s EXCEPT !.enemies[i] = EnemyStartTurn(@), !.acted = Append(@, i)]
             s2 == execute_intent(s1, i)
             s3 == [s2 EXCEPT !.enemies[i] = EnemyEndTurn(@)]
         IN  IF s2.raised THEN s2
             ELSE IF ~EntityIsAlive(s2.player)
                  THEN [Emit(SetPhase(SetResult(s2, DEFEAT), COMBAT_END),
                             Event("COMBAT_END", 0)) EXCEPT !.halt = TRUE]
                  ELSE EnemyLoop(IF EntityIsAlive(s3.enemies[i]) THEN s3
                                 ELSE Emit(s3, Event("ENEMY_DIED", i)),
                                 living, k + 1)

\* "for enemy in get_living_enemies(): enemy.choose_intent(state)"
ChooseIntents(s) ==
    [s EXCEPT !.enemies = [i \in 1..Len(@) |->
                              IF EntityIsAlive(@[i]) THEN choose_intent(@[i]) ELSE @[i]]]

\* Variant of _execute_enemy_turn that starts the next player turn without
\* looking at the result.
execute_enemy_turn_unguarded(s) ==
    LET s1 == SetPhase(s, ENEMY_TURN)
        s2 == EnemyLoop(s1, LivingEnemies(s1), 1)
        s3 == check_combat_end(s2)
    IN  IF s2.raised \/ s2.halt THEN {s2}
        ELSE start_player_turn(ChooseIntents(s3))

\* CombatManager._execute_enemy_turn
execute_enemy_turn(s) ==
    LET s1 == SetPhase(s, ENEMY_TURN)
        s2 == EnemyLoop(s1, LivingEnemies(s1), 1)
        s3 == check_combat_end(s2)
    IN  IF s2.raised \/ s2.halt THEN {s2}
        ELSE IF s3.result = IN_PROGRESS THEN start_player_turn(ChooseIntents(s3))
        ELSE {s3}

\* CombatManager.end_player_turn after the phase check
end_player_turn(s) ==
    LET s1 == deck_end_turn(Emit(s, Event("TURN_END", s.turn_number)))
        s2 == [s1 EXCEPT !.player = process_end_of_turn_effects(@),
                         !.energy_system = EnergyEndTurn(@)]
    IN  execute_enemy_turn(s2)

\* Variant of start_combat in which the enemies do not choose an intent.
start_combat_without_intents(s0, master, enemies, dc) ==
    LET s1 == [s0 EXCEPT !.enemies = enemies, !.draw_count = dc,
                         !.turn_number = 0, !.phase = NOT_STARTED,
                         !.result = IN_PROGRESS, !.phases = <<NOT_STARTED>>,
                         !.results = <<IN_PROGRESS>>,
                         !.energy_system = EnergySystem,
                         !.player = PlayerStartCombat(@)]
    IN  UNION {start_player_turn(
                  Emit([r EXCEPT !.energy_system = EnergyInitialize(@, r.player)],
                       Event("COMBAT_START", 0))) :
               r \in initialize_from_deck(s1, master)}

\* CombatManager.start_combat on a fresh CombatState(player, enemies)
start_combat(s0, master, enemies, dc) ==
    LET s1 == [s0 EXCEPT !.enemies = enemies, !.draw_count = dc,
                         !.turn_number = 0, !.phase = NOT_STARTED,
                         !.result = IN_PROGRESS, !.phases = <<NOT_STARTED>>,
                         !.results = <<IN_PROGRESS>>,
                         !.energy_system = EnergySystem,
                         !.player = PlayerStartCombat(@)]
    IN  UNION {start_player_turn(
                  [Emit([r EXCEPT !.energy_system = EnergyInitialize(@, r.player)],
                        Event("COMBAT_START", 0))
                     EXCEPT !.enemies = [i \in 1..Len(@) |-> choose_intent(@[i])]]) :
               r \in initialize_from_deck(s1, master)}

(***************************************************************************)
(* The public calls, whole: validation, early returns and the body.  Each  *)
(* yields the set of records the call can end in; "outcome" is "success"   *)
(* or "failure" (the success entry of the returned dict) or "exception"    *)
(* (the call was left by an exception and returned nothing).               *)
(***************************************************************************)
Finish(s, reason) ==
    [s EXCEPT !.outcome = IF s.raised THEN "exception"
                          ELSE IF reason = "" THEN "success" ELSE "failure",
              !.reason = reason]

\* Variant of play_card that pays the energy before it validates the play.
PlayCardCall_spend_first(active, s, card, target) ==
    IF ~active THEN {Finish(s, "No active combat")}
    ELSE IF can_play_card(active, s, card, target) # ""
         THEN {Finish([s EXCEPT !.energy_system =
                                   EnergySpend(@, CardCost(s.cards[card]))],
                      can_play_card(active, s, card, target))}
         ELSE {Finish(r, "") : r \in play_card(s, card, target)}

\* CombatManager.play_card
PlayCardCall(active, s, card, target) ==
    IF ~active THEN {Finish(s, "No active combat")}
    ELSE IF can_play_card(active, s, card, target) # ""
         THEN {Finish(s, can_play_card(active, s, card, target))}
         ELSE {Finish(r, "") : r \in play_card(s, card, target)}

\* Variant of end_player_turn without the phase test.
EndPlayerTurnCall_any_phase(active, s) ==
    IF ~active THEN {Finish(s, "No active combat")}
    ELSE {Finish(r, "") : r \in end_player_turn(s)}

\* CombatManager.end_player_turn
EndPlayerTurnCall(active, s) ==
    IF ~active THEN {Finish(s, "No active combat")}
    ELSE IF s.phase # PLAYER_TURN THEN {Finish(s, "Not player's turn")}
    ELSE {Finish(r, "") : r \in end_player_turn(s)}

\* CombatManager.start_combat
StartCombatCall(s, master, enemies, dc) ==
    {Finish(r, "") : r \in start_combat(s, master, enemies, dc)}

(***************************************************************************)
(* Inputs: the player's master deck, the player and the encounters         *)
(***************************************************************************)
PoisonDeck ==
    <<CardInstance("bash", FALSE), CardInstance("pommel_strike", FALSE),
      CardInstance("deadly_poison", FALSE)>>

IronWaveDeck == <<CardInstance("iron_wave", FALSE), CardInstance("iron_wave", TRUE)>>

Decks ==
    {<<CardInstance("strike", FALSE), CardInstance("strike", FALSE),
       CardInstance("flash", FALSE)>>,
     PoisonDeck,
     IronWaveDeck,
     <<CardInstance("defend", TRUE), CardInstance("cleave", FALSE),
       CardInstance("dazed", FALSE)>>}

\* The player of the combats owns an Anchor and a Centennial Puzzle and is
\* either one hit from death or able to survive one hit.
Players ==
    {[Player(hp, 80, 3) EXCEPT
         !.relics = <<RelicInstance(ANCHOR), RelicInstance(CENTENNIAL_PUZZLE)>>] :
       hp \in {5, 9}}

Encounters ==
    {<<Enemy(12, 12, "none"), Enemy(5, 40, "cultist")>>,
     <<Enemy(5, 40, "cultist")>>}

DrawCounts == {2, DEFAULT_DRAW_COUNT}

(***************************************************************************)
(* State                                                                   *)
(***************************************************************************)
VARIABLES
    active,         \* CombatManager.state is not None
    cards,          \* heap of CardInstance objects, by object identity
    master_deck,    \* Player.master_deck
    player,         \* the Player object
    enemies,        \* CombatState.enemies
    draw_pile, hand, discard_pile, exhaust_pile,   \* DeckManager piles
    energy_system,  \* CombatState.energy_system
    turn_number, phase, result,                    \* CombatState fields
    draw_count,     \* CombatManager.draw_count
    event_bus,      \* the global EventBus
    buses,          \* heap of EventBus objects, by object identity (0: None)
    global_event_bus,    \* the object _global_event_bus refers to
    manager_event_bus,   \* the object CombatManager.event_bus refers to
    subscriptions,  \* the subscribe calls made on the bus since it was
                    \* created or cleared, in order, and whether each was
                    \* unsubscribed since
    combats,        \* number of start_combat calls so far
    steps,          \* number of operations applied to a DeckManager, an entity
                    \* or an EnergySystem used on its own
    last            \* the last call: operation, arguments, outcome, trace

stateVars ==
    <<active, cards, master_deck, player, enemies, draw_pile, hand, discard_pile,
      exhaust_pile, energy_system, turn_number, phase, result, draw_count>>

busVars == <<event_bus, subscriptions>>

\* Which bus object the module global and the combat manager refer to.  Only
\* a session that resets the global bus tells the two apart; everywhere else
\* there is the one bus event_bus and these stay as they are.
sessionVars == <<buses, global_event_bus, manager_event_bus>>

OneBus ==
    /\ buses = <<>>
    /\ global_event_bus = 0
    /\ manager_event_bus = 0

vars == <<stateVars, busVars, sessionVars, combats, steps, last>>

\* The state as the record the operations work on, with an empty call trace.
Cur ==
    [cards |-> cards, draw_pile |-> draw_pile, hand |-> hand,
     discard_pile |-> discard_pile, exhaust_pile |-> exhaust_pile,
     max_hand_size |-> MAX_HAND_SIZE, energy_system |-> energy_system,
     player |-> player, enemies |-> enemies, turn_number |-> turn_number,
     phase |-> phase, result |-> result, draw_count |-> draw_count,
     event_bus |-> event_bus, invoked |-> <<>>, seen |-> <<>>,
     events |-> <<>>, phases |-> <<phase>>, results |-> <<result>>,
     acted |-> <<>>, drawn |-> <<>>, discarded |-> <<>>,
     raised |-> FALSE, halt |-> FALSE,
     outcome |-> "success", reason |-> ""]

Commit(r) ==
    /\ cards' = r.cards
    /\ draw_pile' = r.draw_pile
    /\ hand' = r.hand
    /\ discard_pile' = r.discard_pile
    /\ exhaust_pile' = r.exhaust_pile
    /\ energy_system' = r.energy_system
    /\ player' = r.player
    /\ enemies' = r.enemies
    /\ turn_number' = r.turn_number
    /\ phase' = r.phase
    /\ result' = r.result
    /\ draw_count' = r.draw_count
    /\ event_bus' = r.event_bus
    /\ UNCHANGED <<subscriptions, sessionVars>>

\* What is kept of a call: the operation, its outcome and trace, and for a
\* call that was carried out the card and target it was given.
CallRecord(op, card, target, r) ==
    [op |-> op,
     card |-> IF r.outcome = "failure" THEN 0 ELSE card,
     target |-> IF r.outcome = "failure" THEN None ELSE target,
     outcome |-> r.outcome,
     reason |-> r.reason, events |-> r.events, phases |-> r.phases,
     results |-> r.results, acted |-> r.acted, invoked |-> r.invoked,
     seen |-> r.seen]

Init ==
    /\ active = FALSE
    /\ \E deck \in Decks :
          /\ cards = deck
          /\ master_deck = [i \in 1..Len(deck) |-> i]
    /\ player \in Players
    /\ player.current_hp > 5 => cards = PoisonDeck
    /\ enemies = <<>>
    /\ draw_pile = <<>>
    /\ hand = <<>>
    /\ discard_pile = <<>>
    /\ exhaust_pile = <<>>
    /\ energy_system = EnergySystem
    /\ turn_number = 0
    /\ phase = NOT_STARTED
    /\ result = IN_PROGRESS
    /\ draw_count = DEFAULT_DRAW_COUNT
    /\ event_bus = EventBus
    /\ subscriptions = <<>>
    /\ OneBus
    /\ combats = 0
    /\ steps = 0
    /\ last = [op |-> "init", card |-> 0, target |-> None, outcome |-> "success",
               reason |-> "", events |-> <<>>, phases |-> <<NOT_STARTED>>,
               results |-> <<IN_PROGRESS>>, acted |-> <<>>, invoked |-> <<>>,
               seen |-> <<>>]

\* manager.start_combat(player, enemies, draw_count)
StartCombat ==
    /\ combats < MaxCombats
    /\ \E enc \in Encounters, dc \in DrawCounts :
          \E r \in StartCombatCall(Cur, master_deck, enc, dc) :
             /\ Commit(r)
             /\ last' = CallRecord("start_combat", 0, None, r)
    /\ active' = TRUE
    /\ combats' = combats + 1
    /\ UNCHANGED <<master_deck, steps>>

Targets == {None} \cup {Some(i) : i \in 1..Len(enemies)}

\* manager.play_card(card, target)
PlayCard ==
    \E card \in DOMAIN cards, target \in Targets :
       \E r \in PlayCardCall(active, Cur, card, target) :
          /\ Commit(r)
          /\ last' = CallRecord("play_card", card, target, r)
          /\ UNCHANGED <<active, master_deck, combats, steps>>

\* manager.end_player_turn()
EndPlayerTurn ==
    /\ turn_number < MaxTurns \/ phase # PLAYER_TURN
    /\ \E r \in EndPlayerTurnCall(active, Cur) :
          /\ Commit(r)
          /\ last' = CallRecord("end_player_turn", 0, None, r)
          /\ UNCHANGED <<active, master_deck, combats, steps>>

Next == StartCombat \/ PlayCard \/ EndPlayerTurn

Spec == Init /\ [][Next]_vars

(***************************************************************************)
(* A DeckManager on its own: the piles are set up directly, as the tests   *)
(* of tests/test_deck.py do, and draw, end_turn, add_card_to_hand and      *)
(* move_card_to_hand are called on it.  The objects 1..NumObjects cycle    *)
(* through a plain card, an ethereal one, a retained one and one that is   *)
(* both.                                                                   *)
(***************************************************************************)
MaxPile == 2
MaxDraw == 3
MaxShuffle == 3
MaxDeckOps == 2
NumObjects == MAX_HAND_SIZE + 2 * MaxPile + 2

DeckKinds == <<"strike", "dazed", "hold", "ghost">>
DeckHeap == [o \in 1..NumObjects |-> CardInstance(DeckKinds[((o - 1) % 4) + 1], FALSE)]
HandSizes == {0, 2, 4, MAX_HAND_SIZE - 1, MAX_HAND_SIZE}

\* The list <<a + 1, ..., a + n>> of object ids
Objects(a, n) == [i \in 1..n |-> a + i]

\* The state outside the object under test: no combat was started.
Idle ==
    /\ active = FALSE
    /\ master_deck = <<>>
    /\ enemies = <<>>
    /\ turn_number = 0
    /\ phase = NOT_STARTED
    /\ result = IN_PROGRESS
    /\ draw_count = DEFAULT_DRAW_COUNT
    /\ event_bus = EventBus
    /\ subscriptions = <<>>
    /\ OneBus
    /\ combats = 0
    /\ steps = 0

InitRecord ==
    [op |-> "init", card |-> 0, target |-> None, outcome |-> "success",
     reason |-> "", events |-> <<>>, phases |-> <<NOT_STARTED>>,
     results |-> <<IN_PROGRESS>>, acted |-> <<>>, n |-> 0,
     drawn |-> <<>>, discarded |-> <<>>]

\* What is kept of a DeckManager call: the operation, its argument, the
\* events it emitted and the list it returned.
DeckRecord(op, n, r) ==
    [InitRecord EXCEPT !.op = op, !.n = n, !.events = r.events,
                       !.drawn = r.drawn, !.discarded = r.discarded]

DeckInit ==
    /\ Idle
    /\ player \in {p \in Players : p.current_hp <= 5}
    /\ energy_system = EnergySystem
    /\ cards = DeckHeap
    /\ \E h \in HandSizes, d \in 0..MaxPile, c \in 0..MaxPile, e \in 0..1 :
          /\ h + d + c + e < NumObjects
          /\ hand = Objects(0, h)
          /\ draw_pile = Objects(h, d)
          /\ discard_pile = Objects(h + d, c)
          /\ exhaust_pile = Objects(h + d + c, e)
    /\ last = InitRecord

DeckFrame ==
    /\ steps' = steps + 1
    /\ UNCHANGED <<active, master_deck, combats>>

\* deck_manager.draw(n)
DeckDraw ==
    /\ steps < MaxDeckOps
    /\ \E n \in 0..MaxDraw :
          /\ Len(draw_pile) >= n \/ Len(discard_pile) <= MaxShuffle
          /\ \E r \in draw(Cur, n) :
                /\ Commit(r)
                /\ last' = DeckRecord("draw", n, r)
    /\ DeckFrame

\* deck_manager.end_turn()
DeckEndTurn ==
    /\ steps < MaxDeckOps
    /\ Commit(deck_end_turn(Cur))
    /\ last' = DeckRecord("end_turn", 0, deck_end_turn(Cur))
    /\ DeckFrame

\* The objects of the heap that are in no pile
Spare ==
    (DOMAIN cards) \ ({hand[i] : i \in 1..Len(hand)}
                         \cup {draw_pile[i] : i \in 1..Len(draw_pile)}
                         \cup {discard_pile[i] : i \in 1..Len(discard_pile)}
                         \cup {exhaust_pile[i] : i \in 1..Len(exhaust_pile)})

\* deck_manager.add_card_to_hand(card) with a card that is in no pile
DeckAddCardToHand ==
    /\ steps < MaxDeckOps
    /\ Spare # {}
    /\ LET card == CHOOSE o \in Spare : \A x \in Spare : o <= x
       IN  /\ Commit(add_card_to_hand(Cur, card))
           /\ last' = [DeckRecord("add_card_to_hand", 0, add_card_to_hand(Cur, card))
                          EXCEPT !.card = card]
    /\ DeckFrame

\* deck_manager.move_card_to_hand(card, from_pile) with a card of that pile
DeckMoveCardToHand ==
    /\ steps < MaxDeckOps
    /\ \E from_pile \in {"draw", "discard"} :
          LET pile == IF from_pile = "draw" THEN draw_pile ELSE discard_pile
          IN  \E i \in 1..Len(pile) :
                 /\ Commit(move_card_to_hand(Cur, pile[i], from_pile))
                 /\ last' = [DeckRecord("move_card_to_hand", 0,
                                        move_card_to_hand(Cur, pile[i], from_pile))
                                EXCEPT !.card = pile[i]]
    /\ DeckFrame

\* CardInstance.set_cost_this_turn
set_cost_this_turn(s, card, cost) == [s EXCEPT !.cards[card].cost_this_turn = Some(cost)]

\* card.set_cost_this_turn(0) on a card of the hand or of the exhaust pile
DeckSetCostThisTurn ==
    /\ steps < MaxDeckOps
    /\ \E card \in {hand[i] : i \in 1..Len(hand)}
                   \cup {exhaust_pile[i] : i \in 1..Len(exhaust_pile)} :
          /\ Commit(set_cost_this_turn(Cur, card, 0))
          /\ last' = [DeckRecord("set_cost_this_turn", 0, Cur) EXCEPT !.card = card]
    /\ DeckFrame

DeckNext ==
    \/ DeckDraw
    \/ DeckEndTurn
    \/ DeckAddCardToHand
    \/ DeckMoveCardToHand
    \/ DeckSetCostThisTurn

DeckSpec == DeckInit /\ [][DeckNext]_vars

(***************************************************************************)
(* The entities on their own: a player and two enemies are set up directly *)
(* (HP, block, statuses, intent), as tests/test_combat.py does, and the    *)
(* operations that change HP or block are applied to them.                 *)
(***************************************************************************)
MaxEntityOps == 1

EntityHP == 30
LowHP == 4
PlayerBlocks == {0, 10}
EnemyBlocks == {0, 5}

PlayerStatuses ==
    {EmptyStatus,
     StatusSet(EmptyStatus, "WEAK", 2),
     StatusSet(StatusSet(EmptyStatus, "STRENGTH", 2), "VULNERABLE", 1),
     StatusSet(StatusSet(StatusSet(StatusSet(EmptyStatus, "STRENGTH", 1), "WEAK", 1),
                         "VULNERABLE", 2), "REGEN", 3)}

EnemyStatuses ==
    {EmptyStatus,
     StatusSet(EmptyStatus, "VULNERABLE", 2),
     StatusSet(StatusSet(EmptyStatus, "WEAK", 1), "STRENGTH", 3),
     StatusSet(StatusSet(StatusSet(StatusSet(EmptyStatus, "VULNERABLE", 1), "WEAK", 2),
                         "POISON", 4), "STRENGTH", 1)}

Damages == {5, 6, 9}
Heals == {0, 3, 50}
Intents ==
    {Intent("ATTACK", Some(6), None),
     Intent("ATTACK", Some(15), None),
     [Intent("ATTACK", Some(2), None) EXCEPT !.times = 2],
     Intent("DEFEND", None, Some(5)),
     Intent("ATTACK_DEFEND", Some(7), Some(5))}

DamageTargetChoices == {EntityTarget(EnemyRef(1)), ListTarget(<<EnemyRef(1), EnemyRef(2)>>)}

\* What is kept of an operation on the entities: its name and arguments and
\* whether an exception left it.
EntityRecord(op, amount, times, target, r) ==
    [op |-> op, amount |-> amount, times |-> times, target |-> target,
     raised |-> r.raised]

EntityInit ==
    /\ active = FALSE /\ master_deck = <<>> /\ cards = <<>>
    /\ draw_pile = <<>> /\ hand = <<>> /\ discard_pile = <<>> /\ exhaust_pile = <<>>
    /\ energy_system = EnergySystem
    /\ turn_number = 0 /\ phase = NOT_STARTED /\ result = IN_PROGRESS
    /\ draw_count = DEFAULT_DRAW_COUNT /\ combats = 0 /\ steps = 0
    /\ event_bus = EventBus /\ subscriptions = <<>> /\ OneBus
    /\ \E hp \in {LowHP, EntityHP}, b \in PlayerBlocks, st \in PlayerStatuses :
          player = [Player(hp, EntityHP, 3) EXCEPT !.block = b, !.status_effects = st]
    /\ \E hp \in {LowHP, EntityHP}, b \in EnemyBlocks, st \in EnemyStatuses, v \in BOOLEAN :
          enemies = <<[Enemy(hp, EntityHP, "none") EXCEPT !.block = b, !.status_effects = st],
                      [Enemy(LowHP + 5, EntityHP, "none") EXCEPT
                          !.block = IF v THEN 0 ELSE 3,
                          !.status_effects =
                             IF v THEN StatusSet(EmptyStatus, "VULNERABLE", 1)
                             ELSE EmptyStatus]>>
    /\ last = [op |-> "init", amount |-> 0, times |-> 0, target |-> NoTarget,
               raised |-> FALSE]

\* One operation on the entities, with its result r.
EntityStep(op, amount, times, target, r) ==
    /\ Commit(r)
    /\ last' = EntityRecord(op, amount, times, target, r)

\* DamageEffect(d, times=k).apply(state, player, target)
EntityDamage ==
    /\ steps < MaxEntityOps
    /\ \E d \in Damages, k \in 1..2, tgt \in DamageTargetChoices :
          EntityStep("damage", d, k, tgt,
                     DamageApply(Cur, [DamageEffect(d, "ENEMY") EXCEPT !.times = k],
                                 PlayerRef, tgt))
    /\ DeckFrame

\* enemy.intent = i; enemy.execute_intent(player, state)
EntityIntent ==
    /\ steps < MaxEntityOps
    /\ \E i \in Intents :
          EntityStep("intent", IF IsNone(i.damage) THEN 0 ELSE Val(i.damage), i.times,
                     EntityTarget(PlayerRef),
                     execute_intent([Cur EXCEPT !.enemies[1].intent = i], 1))
    /\ DeckFrame

\* enemy.take_damage(d)
EntityEnemyTakeDamage ==
    /\ steps < MaxEntityOps
    /\ \E d \in Damages :
          EntityStep("take_damage", d, 1, EntityTarget(EnemyRef(1)),
                     [Cur EXCEPT !.enemies[1] = EnemyTakeDamage(@, d)])
    /\ DeckFrame

\* <<base block, Dexterity of the source, Frail of the source>>
BlockCases == {<<5, 0, 0>>, <<5, 2, 0>>, <<8, 0, 2>>, <<8, 3, 1>>}
\* <<source, target>>
BlockCalls ==
    {<<PlayerRef, NoTarget>>, <<PlayerRef, EntityTarget(PlayerRef)>>,
     <<PlayerRef, EntityTarget(EnemyRef(1))>>,
     <<PlayerRef, ListTarget(<<EnemyRef(1), EnemyRef(2)>>)>>,
     <<EnemyRef(2), NoTarget>>}

\* source.status_effects[DEXTERITY] = d; source.status_effects[FRAIL] = f;
\* BlockEffect(b).apply(state, source, target)
EntityBlock ==
    /\ steps < MaxEntityOps
    /\ \E c \in BlockCases, call \in BlockCalls :
          LET src == GetEntity(Cur, call[1])
              st1 == IF c[2] = 0 THEN StatusDel(src.status_effects, "DEXTERITY")
                     ELSE StatusSet(src.status_effects, "DEXTERITY", c[2])
              st2 == IF c[3] = 0 THEN StatusDel(st1, "FRAIL")
                     ELSE StatusSet(st1, "FRAIL", c[3])
              s1 == PutEntity(Cur, call[1], [src EXCEPT !.status_effects = st2])
          IN  /\ Commit(BlockApply(s1, BlockEffect(c[1]), call[1], call[2]))
              /\ last' = [op |-> "block", amount |-> c[1], times |-> 1,
                          target |-> call[2], raised |-> FALSE, source |-> call[1]]
    /\ DeckFrame

\* HealEffect(h).apply(state, player, None)
EntityHealEffect ==
    /\ steps < MaxEntityOps
    /\ \E h \in Heals :
          EntityStep("heal", h, 1, EntityTarget(PlayerRef),
                     HealApply(Cur, HealEffect(h), PlayerRef, NoTarget))
    /\ DeckFrame

\* enemy.heal(h)
EntityEnemyHeal ==
    /\ steps < MaxEntityOps
    /\ \E h \in Heals :
          EntityStep("heal", h, 1, EntityTarget(EnemyRef(1)),
                     [Cur EXCEPT !.enemies[1] = EntityHeal(@, h)])
    /\ DeckFrame

\* ApplyStatusEffect(POISON, 3) on the first enemy
EntityPoison ==
    /\ steps < MaxEntityOps
    /\ EntityStep("apply_status", 3, 1, EntityTarget(EnemyRef(1)),
                  ApplyStatusTargets(Cur, ApplyStatusEffect("POISON", 3), <<EnemyRef(1)>>))
    /\ DeckFrame

\* process_end_of_turn_effects(player)
EntityPlayerEndTurn ==
    /\ steps < MaxEntityOps
    /\ EntityStep("end_turn", 0, 1, EntityTarget(PlayerRef),
                  [Cur EXCEPT !.player = process_end_of_turn_effects(@)])
    /\ DeckFrame

\* enemy.end_turn()
EntityEnemyEndTurn ==
    /\ steps < MaxEntityOps
    /\ EntityStep("end_turn", 0, 1, EntityTarget(EnemyRef(1)),
                  [Cur EXCEPT !.enemies[1] = EnemyEndTurn(@)])
    /\ DeckFrame

\* enemy.start_turn()
EntityStartTurn ==
    /\ steps < MaxEntityOps
    /\ EntityStep("start_turn", 0, 1, EntityTarget(EnemyRef(1)),
                  [Cur EXCEPT !.enemies[1] = EnemyStartTurn(@)])
    /\ DeckFrame

\* GainEnergyEffect(n).apply(state, source, None)
EntityGainEnergy ==
    /\ steps < MaxEntityOps
    /\ \E n \in {1, 2}, src \in {PlayerRef, EnemyRef(1)} :
          EntityStep("gain_energy", n, 1, EntityTarget(src),
                     GainEnergyApply(Cur, GainEnergyEffect(n), src))
    /\ DeckFrame

EntityNext ==
    \/ EntityGainEnergy
    \/ EntityDamage
    \/ EntityIntent
    \/ EntityEnemyTakeDamage
    \/ EntityBlock
    \/ EntityHealEffect
    \/ EntityEnemyHeal
    \/ EntityPoison
    \/ EntityPlayerEndTurn
    \/ EntityEnemyEndTurn
    \/ EntityStartTurn

EntitySpec == EntityInit /\ [][EntityNext]_vars

(***************************************************************************)
(* An EnergySystem on its own, as constructed, with initialize, start_turn, *)
(* spend, gain and gain_next_turn called on it in any order.               *)
(***************************************************************************)
MaxEnergyOps == 4
MaxAmount == 2
MaxEnergies == {1, 3}

EnergyRecord(op, amount, ok) == [op |-> op, amount |-> amount, ok |-> ok]

EnergyInit ==
    /\ Idle
    /\ cards = <<>>
    /\ draw_pile = <<>> /\ hand = <<>> /\ discard_pile = <<>> /\ exhaust_pile = <<>>
    /\ player \in {Player(80, 80, m) : m \in MaxEnergies}
    /\ energy_system = EnergySystem
    /\ last = EnergyRecord("init", 0, TRUE)

EnergyFrame ==
    /\ steps' = steps + 1
    /\ UNCHANGED <<active, cards, master_deck, player, enemies, draw_pile, hand,
                   discard_pile, exhaust_pile, turn_number, phase, result,
                   draw_count, event_bus, subscriptions, sessionVars, combats>>

\* energy.initialize(player)
EnergyInitializeCall ==
    /\ steps < MaxEnergyOps
    /\ energy_system' = EnergyInitialize(energy_system, player)
    /\ last' = EnergyRecord("initialize", 0, TRUE)
    /\ EnergyFrame

\* energy.start_turn()
EnergyStartTurnCall ==
    /\ steps < MaxEnergyOps
    /\ energy_system' = EnergyStartTurn(energy_system)
    /\ last' = EnergyRecord("start_turn", 0, TRUE)
    /\ EnergyFrame

\* energy.spend(a)
EnergySpendCall ==
    /\ steps < MaxEnergyOps
    /\ \E a \in (-1)..MaxAmount :
          /\ energy_system' = EnergySpend(energy_system, a)
          /\ last' = EnergyRecord("spend", a, EnergySpendReturn(energy_system, a))
    /\ EnergyFrame

\* energy.gain(a)
EnergyGainCall ==
    /\ steps < MaxEnergyOps
    /\ \E a \in 0..MaxAmount :
          /\ energy_system' = EnergyGain(energy_system, a)
          /\ last' = EnergyRecord("gain", a, TRUE)
    /\ EnergyFrame

\* energy.gain_next_turn(a)
EnergyGainNextTurnCall ==
    /\ steps < MaxEnergyOps
    /\ \E a \in 0..MaxAmount :
          /\ energy_system' = EnergyGainNextTurn(energy_system, a)
          /\ last' = EnergyRecord("gain_next_turn", a, TRUE)
    /\ EnergyFrame

\* energy.end_turn(): returns the unspent energy
EnergyEndTurnCall ==
    /\ steps < MaxEnergyOps
    /\ energy_system' = EnergyEndTurn(energy_system)
    /\ last' = EnergyRecord("end_turn", energy_system.current_energy, TRUE)
    /\ EnergyFrame

EnergyNext ==
    \/ EnergyInitializeCall
    \/ EnergyEndTurnCall
    \/ EnergyStartTurnCall
    \/ EnergySpendCall
    \/ EnergyGainCall
    \/ EnergyGainNextTurnCall

EnergySpec == EnergyInit /\ [][EnergyNext]_vars

(***************************************************************************)
(* The status effects on their own: a player and one enemy with status     *)
(* maps, and the operations that write a status map, applied in any order. *)
(***************************************************************************)
MaxStatusOps == 2

\* the kinds and amounts the cards, enemies and tests apply
AppliedKinds == {"POISON", "VULNERABLE", "STRENGTH", "ARTIFACT"}
AppliedAmounts == {1, 3}

StatusStarts ==
    {EmptyStatus,
     StatusSet(EmptyStatus, "ARTIFACT", 1),
     StatusSet(StatusSet(EmptyStatus, "ARTIFACT", 2), "REGEN", 1),
     StatusSet(StatusSet(StatusSet(StatusSet(StatusSet(StatusSet(StatusSet(StatusSet(
        StatusSet(EmptyStatus, "METALLICIZE", 3), "PLATED_ARMOR", 2), "REGEN", 2),
        "VULNERABLE", 1), "WEAK", 2), "FRAIL", 1), "INTANGIBLE", 1), "STRENGTH", 2),
        "POISON", 1)}

\* is_debuff(effect_type): the is_debuff field of the registry entry
is_debuff(effect_type) == effect_type \in {"VULNERABLE", "WEAK", "FRAIL", "POISON"}

\* apply_status_to_entity(entity, effect_type, amount): the entity afterwards
apply_status_to_entity(entity, effect_type, amount) ==
    LET artifact_count == StatusGet(entity.status_effects, "ARTIFACT")
    IN  IF is_debuff(effect_type) /\ artifact_count > 0
        THEN [entity EXCEPT !.status_effects =
                 IF artifact_count - 1 <= 0 THEN StatusDel(@, "ARTIFACT")
                 ELSE StatusSet(@, "ARTIFACT", artifact_count - 1)]
        ELSE [entity EXCEPT !.status_effects =
                 StatusSet(@, effect_type, StatusGet(@, effect_type) + amount)]

\* the value apply_status_to_entity returns: False when Artifact blocked it
apply_status_to_entity_return(entity, effect_type) ==
    ~(is_debuff(effect_type) /\ StatusGet(entity.status_effects, "ARTIFACT") > 0)

\* remove_status_from_entity(entity, effect_type)
remove_status_from_entity(entity, effect_type) ==
    [entity EXCEPT !.status_effects = StatusDel(@, effect_type)]

\* Player.end_turn()
PlayerEndTurn(p) ==
    [p EXCEPT !.status_effects = StatusDecrementAll(@, <<"VULNERABLE", "WEAK", "FRAIL">>)]

StatusRecord(op, kind, amount, target, applied) ==
    [op |-> op, kind |-> kind, amount |-> amount, target |-> target, applied |-> applied]

StatusInit ==
    /\ active = FALSE /\ master_deck = <<>> /\ cards = <<>>
    /\ draw_pile = <<>> /\ hand = <<>> /\ discard_pile = <<>> /\ exhaust_pile = <<>>
    /\ energy_system = EnergySystem
    /\ turn_number = 0 /\ phase = NOT_STARTED /\ result = IN_PROGRESS
    /\ draw_count = DEFAULT_DRAW_COUNT /\ combats = 0 /\ steps = 0
    /\ event_bus = EventBus /\ subscriptions = <<>> /\ OneBus
    /\ \E hp \in {LowHP, EntityHP}, st \in StatusStarts :
          player = [Player(hp, EntityHP, 3) EXCEPT !.status_effects = st]
    /\ \E hp \in {LowHP, EntityHP}, st \in StatusStarts :
          enemies = <<[Enemy(hp, EntityHP, "none") EXCEPT !.status_effects = st]>>
    /\ last = StatusRecord("init", "-", 0, PlayerRef, TRUE)

StatusTargets == {PlayerRef, EnemyRef(1)}

\* ApplyStatusEffect(kind, n).apply(state, source, target)
StatusApplyEffect ==
    /\ steps < MaxStatusOps
    /\ \E k \in AppliedKinds, n \in AppliedAmounts, t \in StatusTargets :
          /\ Commit(ApplyStatusTargets(Cur, ApplyStatusEffect(k, n), <<t>>))
          /\ last' = StatusRecord("apply_status", k, n, t, TRUE)
    /\ DeckFrame

\* apply_status_to_entity(entity, kind, n)
StatusApplyToEntity ==
    /\ steps < MaxStatusOps
    /\ \E k \in AppliedKinds, n \in AppliedAmounts, t \in StatusTargets :
          /\ Commit(PutEntity(Cur, t, apply_status_to_entity(GetEntity(Cur, t), k, n)))
          /\ last' = StatusRecord("apply_status_to_entity", k, n, t,
                                  apply_status_to_entity_return(GetEntity(Cur, t), k))
    /\ DeckFrame

\* remove_status_from_entity(entity, kind)
StatusRemove ==
    /\ steps < MaxStatusOps
    /\ \E k \in {"POISON", "ARTIFACT"}, t \in StatusTargets :
          /\ Commit(PutEntity(Cur, t, remove_status_from_entity(GetEntity(Cur, t), k)))
          /\ last' = StatusRecord("remove_status", k, 0, t,
                                  k \in DOMAIN GetEntity(Cur, t).status_effects)
    /\ DeckFrame

\* process_end_of_turn_effects(entity)
StatusEndOfTurnEffects ==
    /\ steps < MaxStatusOps
    /\ \E t \in StatusTargets :
          /\ Commit(PutEntity(Cur, t, process_end_of_turn_effects(GetEntity(Cur, t))))
          /\ last' = StatusRecord("process_end_of_turn_effects", "-", 0, t, TRUE)
    /\ DeckFrame

\* player.end_turn()
StatusPlayerEndTurn ==
    /\ steps < MaxStatusOps
    /\ Commit([Cur EXCEPT !.player = PlayerEndTurn(@)])
    /\ last' = StatusRecord("end_turn", "-", 0, PlayerRef, TRUE)
    /\ DeckFrame

\* enemy.end_turn()
StatusEnemyEndTurn ==
    /\ steps < MaxStatusOps
    /\ Commit([Cur EXCEPT !.enemies[1] = EnemyEndTurn(@)])
    /\ last' = StatusRecord("end_turn", "-", 0, EnemyRef(1), TRUE)
    /\ DeckFrame

StatusNext ==
    \/ StatusApplyEffect
    \/ StatusApplyToEntity
    \/ StatusRemove
    \/ StatusEndOfTurnEffects
    \/ StatusPlayerEndTurn
    \/ StatusEnemyEndTurn

StatusSpec == StatusInit /\ [][StatusNext]_vars

(***************************************************************************)
(* An EventBus on its own: subscribe, unsubscribe, emit and clear called   *)
(* in any order.  The handlers record that they were called; "g" also      *)
(* emits HP_LOST when it is called for COMBAT_START.                       *)
(* "subscriptions" keeps every subscribe call; the id it returned is its   *)
(* position minus one.                                                     *)
(***************************************************************************)
MaxBusOps == 4

BusKinds == {"COMBAT_START", "HP_LOST"}
BusHandlers == {"f", "g"}
BusPriorities == {0, 5}

BusRecord(op, event_type, handler, priority, handler_id, returned, invoked) ==
    [op |-> op, event_type |-> event_type, handler |-> handler, priority |-> priority,
     handler_id |-> handler_id, returned |-> returned, invoked |-> invoked,
     calls |-> <<>>]

BusInit ==
    /\ Idle
    /\ cards = <<>> /\ draw_pile = <<>> /\ hand = <<>>
    /\ discard_pile = <<>> /\ exhaust_pile = <<>>
    /\ player = Player(EntityHP, EntityHP, 3)
    /\ energy_system = EnergySystem
    /\ last = BusRecord("init", "-", "-", 0, 0, TRUE, <<>>)

BusFrame ==
    /\ steps' = steps + 1
    /\ UNCHANGED <<stateVars, sessionVars, combats>>

\* id = bus.subscribe(event_type, handler, priority)
BusSubscribe ==
    /\ steps < MaxBusOps
    /\ \E k \in BusKinds, h \in BusHandlers, p \in BusPriorities :
          /\ event_bus' = subscribe(event_bus, k, h, p)
          /\ subscriptions' = Append(subscriptions,
                                     [event_type |-> k, handler |-> h, priority |-> p,
                                      live |-> TRUE])
          /\ last' = BusRecord("subscribe", k, h, p, event_bus.next_id, TRUE, <<>>)
    /\ BusFrame

\* bus.unsubscribe(id), for the ids handed out so far and one never handed out
BusUnsubscribe ==
    /\ steps < MaxBusOps
    /\ \E id \in 0..event_bus.next_id :
          /\ event_bus' = unsubscribe(event_bus, id)
          /\ subscriptions' = [i \in DOMAIN subscriptions |->
                                  IF i = id + 1
                                  THEN [subscriptions[i] EXCEPT !.live = FALSE]
                                  ELSE subscriptions[i]]
          /\ last' = BusRecord("unsubscribe", "-", "-", 0, id,
                               unsubscribe_return(event_bus, id), <<>>)
    /\ BusFrame

\* bus.emit(GameEvent(event_type))
BusEmit ==
    /\ steps < MaxBusOps
    /\ \E k \in BusKinds :
          last' = [BusRecord("emit", k, "-", 0, 0, TRUE, emit(event_bus, k))
                      EXCEPT !.calls = emit_trace(event_bus, k, 0)]
    /\ UNCHANGED busVars
    /\ BusFrame

\* bus.clear()
BusClear ==
    /\ steps < MaxBusOps
    /\ event_bus' = clear(event_bus)
    /\ subscriptions' = <<>>
    /\ last' = BusRecord("clear", "-", "-", 0, 0, TRUE, <<>>)
    /\ BusFrame

BusNext == BusSubscribe \/ BusUnsubscribe \/ BusEmit \/ BusClear

BusSpec == BusInit /\ [][BusNext]_vars

(***************************************************************************)
(* The module global _global_event_bus over a session: a CombatManager is  *)
(* constructed (GameSession does it when it is built), the global bus is   *)
(* reset (GameSession.start_run, test fixtures), handlers subscribe on     *)
(* get_event_bus(), and the combat manager, the deck manager and the       *)
(* player emit.  A Session is the heap of bus objects with the global      *)
(* reference into it.                                                      *)
(***************************************************************************)
MaxSessionOps == 4

ManagerKinds ==
    {"COMBAT_START", "TURN_START", "TURN_END", "CARD_PLAYED", "ENEMY_DIED", "COMBAT_END"}
DeckManagerKinds == {"SHUFFLE", "CARD_DRAWN", "CARD_EXHAUSTED"}
SessionSubscribers == {<<"COMBAT_START", "f">>, <<"CARD_DRAWN", "g">>}

Session == [buses |-> buses, global |-> global_event_bus]

\* get_event_bus(): creates the global bus when there is none; the bus
\* returned is the global of the result
get_event_bus(g) ==
    IF g.global = 0
    THEN [buses |-> Append(g.buses, EventBus), global |-> Len(g.buses) + 1]
    ELSE g

\* reset_event_bus(): clears the old global bus and makes a new object the
\* global bus
reset_event_bus(g) ==
    LET cleared == IF g.global # 0 THEN [g.buses EXCEPT ![g.global] = clear(@)]
                   ELSE g.buses
    IN  [buses |-> Append(cleared, EventBus), global |-> Len(cleared) + 1]

SessionRecord(op, event_type, bus, invoked) ==
    [op |-> op, event_type |-> event_type, bus |-> bus, invoked |-> invoked]

SessionInit ==
    /\ active = FALSE /\ master_deck = <<>> /\ enemies = <<>>
    /\ turn_number = 0 /\ phase = NOT_STARTED /\ result = IN_PROGRESS
    /\ draw_count = DEFAULT_DRAW_COUNT
    /\ event_bus = EventBus /\ subscriptions = <<>>
    /\ combats = 0 /\ steps = 0
    /\ cards = <<>> /\ draw_pile = <<>> /\ hand = <<>>
    /\ discard_pile = <<>> /\ exhaust_pile = <<>>
    /\ player \in {p \in Players : p.current_hp <= 5}
    /\ energy_system = EnergySystem
    /\ buses = <<>>
    /\ global_event_bus = 0
    /\ manager_event_bus = 0
    /\ last = SessionRecord("init", "-", 0, <<>>)

SessionFrame ==
    /\ steps' = steps + 1
    /\ UNCHANGED <<stateVars, busVars, combats>>

SetSession(g) ==
    /\ buses' = g.buses
    /\ global_event_bus' = g.global

\* CombatManager(): "self.event_bus = get_event_bus()"
SessionNewManager ==
    /\ steps < MaxSessionOps
    /\ SetSession(get_event_bus(Session))
    /\ manager_event_bus' = get_event_bus(Session).global
    /\ last' = SessionRecord("new_manager", "-", get_event_bus(Session).global, <<>>)
    /\ SessionFrame

\* GameSession.start_run(): "reset_event_bus()"
SessionStartRun ==
    /\ steps < MaxSessionOps
    /\ SetSession(reset_event_bus(Session))
    /\ last' = SessionRecord("reset_event_bus", "-", reset_event_bus(Session).global, <<>>)
    /\ UNCHANGED manager_event_bus
    /\ SessionFrame

\* get_event_bus().subscribe(event_type, handler)
SessionSubscribe ==
    /\ steps < MaxSessionOps
    /\ \E sub \in SessionSubscribers :
          LET g == get_event_bus(Session)
          IN  /\ SetSession([g EXCEPT !.buses[g.global] = subscribe(@, sub[1], sub[2], 0)])
              /\ last' = SessionRecord("subscribe", sub[1], g.global, <<>>)
    /\ UNCHANGED manager_event_bus
    /\ SessionFrame

\* "self.event_bus.emit(GameEvent...)" in a CombatManager
SessionManagerEmit ==
    /\ steps < MaxSessionOps
    /\ manager_event_bus # 0
    /\ \E k \in ManagerKinds :
          last' = SessionRecord("manager_emit", k, manager_event_bus,
                                emit(buses[manager_event_bus], k))
    /\ UNCHANGED sessionVars
    /\ SessionFrame

\* "get_event_bus().emit(GameEvent...)" in DeckManager and Player
SessionDeckEmit ==
    /\ steps < MaxSessionOps
    /\ \E k \in DeckManagerKinds :
          LET g == get_event_bus(Session)
          IN  /\ SetSession(g)
              /\ last' = SessionRecord("deck_emit", k, g.global, emit(g.buses[g.global], k))
    /\ UNCHANGED manager_event_bus
    /\ SessionFrame

SessionNext ==
    \/ SessionNewManager
    \/ SessionStartRun
    \/ SessionSubscribe
    \/ SessionManagerEmit
    \/ SessionDeckEmit

SessionSpec == SessionInit /\ [][SessionNext]_vars

(***************************************************************************)
(* Properties                                                              *)
(***************************************************************************)
PileOf(pile) == {pile[i] : i \in 1..Len(pile)}
Occurrences(pile, o) == Cardinality({i \in 1..Len(pile) : pile[i] = o})
AllEnemiesDead == \A i \in 1..Len(enemies) : enemies[i].current_hp <= 0
CombatCalls == {"play_card", "end_player_turn"}

PhaseEdges ==
    {<<NOT_STARTED, PLAYER_TURN>>, <<PLAYER_TURN, ENEMY_TURN>>,
     <<ENEMY_TURN, PLAYER_TURN>>, <<PLAYER_TURN, COMBAT_END>>,
     <<ENEMY_TURN, COMBAT_END>>}

\* C1: every assignment to the phase made by start_combat, play_card or
\* end_player_turn follows one of the five edges NotStarted -> PlayerTurn,
\* PlayerTurn -> EnemyTurn, EnemyTurn -> PlayerTurn, PlayerTurn -> CombatEnd,
\* EnemyTurn -> CombatEnd, and a play_card or end_player_turn call made when
\* the phase is CombatEnd assigns no phase at all.
C1_PhaseTransitions ==
    [][/\ \A k \in 1..(Len(last'.phases) - 1) :
             <<last'.phases[k], last'.phases[k + 1]>> \in PhaseEdges
       /\ phase' = last'.phases[Len(last'.phases)]
       /\ last'.op \in CombatCalls => last'.phases[1] = phase
       /\ last'.op = "start_combat" => last'.phases[1] = NOT_STARTED
       /\ (phase = COMBAT_END /\ last'.op \in CombatCalls)
             => (phase' = COMBAT_END /\ last'.phases = <<COMBAT_END>>)]_vars

\* C1 witness: an end_player_turn call ran a whole enemy turn into the second
\* player turn, and a later call was made with the combat ended.
C1_Witness ==
    /\ phase = COMBAT_END
    /\ turn_number = 2
    /\ last.op \in CombatCalls
    /\ last.outcome = "failure"

\* C2: a combat's result starts InProgress, a call assigns it at most once,
\* and once it is Victory or Defeat no play_card or end_player_turn call
\* assigns it again.
C2_ResultFlipsOnce ==
    [][/\ Len(last'.results) <= 2
       /\ result' = last'.results[Len(last'.results)]
       /\ last'.op = "start_combat" => last'.results = <<IN_PROGRESS>>
       /\ last'.op \in CombatCalls => last'.results[1] = result
       /\ (result # IN_PROGRESS /\ last'.op \in CombatCalls)
             => (result' = result /\ last'.results = <<result>>)]_vars

\* C2 witness: a call was made after the result had flipped to Victory.
C2_Witness ==
    /\ result = VICTORY
    /\ last.op \in CombatCalls
    /\ last.results = <<VICTORY>>

\* C3: when a successful play_card or end_player_turn returns with every
\* enemy at 0 HP the result is Victory and the phase CombatEnd, and with the
\* result Victory every further play_card is refused.
C3_VictoryOnLastEnemy ==
    [][/\ (last'.op \in CombatCalls /\ last'.outcome = "success" /\ AllEnemiesDead')
             => (result' = VICTORY /\ phase' = COMBAT_END)
       /\ (result = VICTORY /\ last'.op = "play_card") => last'.outcome = "failure"]_vars

\* C3 witness: the card just played killed the last enemy.
C3_Witness ==
    /\ last.op = "play_card"
    /\ last.outcome = "success"
    /\ AllEnemiesDead
    /\ last.results = <<IN_PROGRESS, VICTORY>>

\* C4: whenever a play_card or end_player_turn call has ended with the player
\* at 0 HP and some enemy alive, the result is Defeat and the phase CombatEnd.
C4_DefeatOnPlayerDeath ==
    (active /\ last.op \in CombatCalls /\ player.current_hp <= 0 /\ ~AllEnemiesDead)
       => (result = DEFEAT /\ phase = COMBAT_END)

\* C5: a play_card call that returns success=false changes nothing of the
\* combat state and emits no event.
C5_FailedPlayIsNoOp ==
    [][(last'.op = "play_card" /\ last'.outcome = "failure")
          => (UNCHANGED stateVars /\ last'.events = <<>>)]_vars

\* C5 witness: a card was refused for lack of energy during the player turn.
C5_Witness ==
    /\ last.op = "play_card"
    /\ last.outcome = "failure"
    /\ last.reason = "Not enough energy"
    /\ phase = PLAYER_TURN

\* The refusal conditions as the claim C6 words them: the card object itself
\* must be one of the hand's elements.
C6_ClaimRefuses(card, target) ==
    \/ ~active
    \/ phase # PLAYER_TURN
    \/ card \notin PileOf(hand)
    \/ CARD_REGISTRY[cards[card].data].unplayable
    \/ energy_system.current_energy < CardCost(cards[card])
    \/ /\ CARD_REGISTRY[cards[card].data].target_type = "SINGLE_ENEMY"
       /\ \/ IsNone(target)
          \/ ~EntityIsAlive(enemies[Val(target)])

\* C6: can_play_card refuses exactly when there is no combat, the phase is
\* not PlayerTurn, the card object is not in the hand, the card is
\* unplayable, energy is short, or a single-enemy card has no living target.
C6_CanPlayExactly ==
    \A card \in DOMAIN cards, target \in Targets :
       (can_play_card(active, Cur, card, target) # "") <=> C6_ClaimRefuses(card, target)

\* C7: end_player_turn called outside PlayerTurn fails and changes nothing:
\* no state change, no event, no enemy acts.
C7_EndTurnOutsidePlayerTurn ==
    [][(last'.op = "end_player_turn" /\ phase # PLAYER_TURN)
          => /\ last'.outcome = "failure"
             /\ UNCHANGED stateVars
             /\ last'.events = <<>>
             /\ last'.acted = <<>>]_vars

\* C7 witness: end_player_turn was refused with the combat ended.
C7_Witness ==
    /\ last.op = "end_player_turn"
    /\ last.outcome = "failure"
    /\ phase = COMBAT_END

\* C8: a successful play_card lowers current energy by the card's cost, takes
\* that card object out of the hand, appends it to the exhaust pile if its
\* exhaust flag is set and to the discard pile otherwise, and adds one to
\* both play counters.
C8_SuccessfulPlay ==
    [][(last'.op = "play_card" /\ last'.outcome = "success")
          => LET c == last'.card
                 ex == CARD_REGISTRY[cards[c].data].exhaust
             IN  /\ energy_system'.current_energy =
                       energy_system.current_energy - CardCost(cards[c])
                 /\ c \notin PileOf(hand')
                 /\ exhaust_pile' = IF ex THEN Append(exhaust_pile, c) ELSE exhaust_pile
                 /\ ~ex => discard_pile' # <<>> /\ discard_pile'[Len(discard_pile')] = c
                 /\ player'.cards_played_this_turn = player.cards_played_this_turn + 1
                 /\ player'.cards_played_this_combat =
                       player.cards_played_this_combat + 1]_vars

\* C9: in a combat, after any sequence of calls, the four piles together hold
\* as many cards as the master deck that was copied at start_combat.
C9_PileConservation ==
    active => Len(draw_pile) + Len(hand) + Len(discard_pile) + Len(exhaust_pile)
                 = Len(master_deck)

\* C9 witness: a card was exhausted and the discard pile was reshuffled into
\* the draw pile during the draw of the second turn.
C9_Witness ==
    /\ active
    /\ turn_number = 2
    /\ exhaust_pile # <<>>
    /\ \E k \in 1..Len(last.events) :
          last.events[k].type = "SHUFFLE" /\ last.op = "end_player_turn"

\* C10: a CardInstance object occurs at most once in the four piles together.
C10_OnePileAtMostOnce ==
    \A o \in DOMAIN cards :
       Occurrences(draw_pile, o) + Occurrences(hand, o)
          + Occurrences(discard_pile, o) + Occurrences(exhaust_pile, o) <= 1

Reverse(seq) == [i \in 1..Len(seq) |-> seq[Len(seq) + 1 - i]]
HasEvent(ty) == \E k \in 1..Len(last.events) : last.events[k].type = ty
IsEthereal(o) == CARD_REGISTRY[cards[o].data].ethereal
IsRetain(o) == CARD_REGISTRY[cards[o].data].retain

\* C11: draw(n) adds to the hand exactly the cards it returns, as many as the
\* request, the room in the hand and the cards of draw and discard pile
\* allow; when the draw pile runs out with cards in the discard pile, the
\* whole discard pile becomes the draw pile (discard empty afterwards, the
\* new draw pile and the cards drawn from it are exactly the old discard
\* pile); otherwise the discard pile is untouched and the cards come off the
\* top of the draw pile; with both piles empty nothing is drawn.
C11_DrawReshuffle ==
    [][last'.op = "draw"
          => LET k == Max(0, Min(last'.n, MAX_HAND_SIZE - Len(hand)))
                 drawn == last'.drawn
                 d == Len(draw_pile)
             IN  /\ hand' = hand \o drawn
                 /\ exhaust_pile' = exhaust_pile
                 /\ Len(drawn) = Min(k, d + Len(discard_pile))
                 /\ IF d < k /\ discard_pile # <<>>
                    THEN /\ discard_pile' = <<>>
                         /\ SubSeq(drawn, 1, d) = Reverse(draw_pile)
                         /\ PileOf(draw_pile') \cup PileOf(SubSeq(drawn, d + 1, Len(drawn)))
                               = PileOf(discard_pile)
                         /\ Len(draw_pile') + Len(drawn) - d = Len(discard_pile)
                    ELSE /\ discard_pile' = discard_pile
                         /\ draw_pile' = SubSeq(draw_pile, 1, d - Len(drawn))
                         /\ drawn = Reverse(SubSeq(draw_pile, d - Len(drawn) + 1, d))]_vars

\* C11 witness: a draw emptied the draw pile, reshuffled the discard pile,
\* went on drawing and still returned fewer cards than requested.
C11_Witness ==
    /\ last.op = "draw"
    /\ HasEvent("SHUFFLE")
    /\ Len(last.drawn) >= 2
    /\ Len(last.drawn) < last.n
    /\ discard_pile = <<>>

\* C12: the hand never holds more than max_hand_size cards, and a draw that
\* stops at the cap leaves the cards it did not draw in the draw pile and
\* adds nothing to the discard pile.
C12_HandCap ==
    [][/\ Len(hand') <= MAX_HAND_SIZE
       /\ (last'.op = "draw" /\ Len(hand') = MAX_HAND_SIZE /\ Len(last'.drawn) < last'.n)
             => /\ PileOf(discard_pile') \subseteq PileOf(discard_pile)
                /\ PileOf(draw_pile') \cup PileOf(discard_pile')
                      = (PileOf(draw_pile) \cup PileOf(discard_pile)) \ PileOf(last'.drawn)
                /\ Len(draw_pile') + Len(discard_pile') + Len(last'.drawn)
                      = Len(draw_pile) + Len(discard_pile)]_vars

\* C12 witness: a draw filled the hand to the cap and stopped with cards
\* left in the draw pile.
C12_Witness ==
    /\ last.op = "draw"
    /\ Len(hand) = MAX_HAND_SIZE
    /\ Len(last.drawn) >= 1
    /\ Len(last.drawn) < last.n
    /\ draw_pile # <<>>

\* C13: within a combat the exhaust pile only grows at its end: every card
\* in it stays where it is through every play_card and end_player_turn call.
C13_ExhaustIsTerminal ==
    [][last'.op \in CombatCalls
          => /\ Len(exhaust_pile') >= Len(exhaust_pile)
             /\ SubSeq(exhaust_pile', 1, Len(exhaust_pile)) = exhaust_pile]_vars

\* C13 witness: an ethereal card was exhausted at the end of a turn and, with
\* it in the exhaust pile, the next turn's draw reshuffled the discard pile
\* and a card was played.
C13_Witness ==
    /\ last.op = "play_card"
    /\ last.outcome = "success"
    /\ turn_number >= 2
    /\ \E i \in 1..Len(exhaust_pile) : IsEthereal(exhaust_pile[i])

\* C14: DeckManager.end_turn sends every ethereal hand card to the exhaust
\* pile (retain flag or not), keeps every other card with the retain flag in
\* the hand, sends the rest to the discard pile, each in hand order, and
\* returns exactly the cards it discarded.
C14_EndTurnRules ==
    [][last'.op = "end_turn"
          => /\ exhaust_pile' = exhaust_pile \o SelectSeq(hand, IsEthereal)
             /\ hand' = SelectSeq(hand, LAMBDA o : ~IsEthereal(o) /\ IsRetain(o))
             /\ discard_pile' =
                   discard_pile \o SelectSeq(hand, LAMBDA o : ~IsEthereal(o) /\ ~IsRetain(o))
             /\ last'.discarded = SelectSeq(hand, LAMBDA o : ~IsEthereal(o) /\ ~IsRetain(o))
             /\ draw_pile' = draw_pile]_vars

\* C14 witness: one end_turn exhausted a card that is ethereal and retained,
\* kept a retained card in the hand and discarded a plain one.
C14_Witness ==
    /\ last.op = "end_turn"
    /\ last.discarded # <<>>
    /\ hand # <<>>
    /\ \E k \in 1..Len(last.events) :
          /\ last.events[k].type = "CARD_EXHAUSTED"
          /\ IsRetain(last.events[k].arg)

\* C15: no call changes the master deck list or any field of its cards, and
\* start_combat fills the piles with as many fresh objects as the master deck
\* has cards, one per master card with the same template and upgraded flag.
C15_MasterDeckUntouched ==
    [][/\ master_deck' = master_deck
       /\ \A i \in 1..Len(master_deck) : cards'[master_deck[i]] = cards[master_deck[i]]
       /\ last'.op = "start_combat"
             => LET fresh == draw_pile' \o hand'
                IN  /\ Len(fresh) = Len(master_deck)
                    /\ Cardinality(PileOf(fresh)) = Len(master_deck)
                    /\ PileOf(fresh) \cap PileOf(master_deck) = {}
                    /\ discard_pile' = <<>> /\ exhaust_pile' = <<>>
                    /\ \E f \in [1..Len(master_deck) -> PileOf(fresh)] :
                          /\ \A i, j \in 1..Len(master_deck) : i # j => f[i] # f[j]
                          /\ \A i \in 1..Len(master_deck) :
                                /\ cards'[f[i]].data = cards[master_deck[i]].data
                                /\ cards'[f[i]].upgraded = cards[master_deck[i]].upgraded]_vars

\* C15 witness: a second combat was started from the same master deck after
\* cards had been played and exhausted in the first.
C15_Witness ==
    /\ last.op = "start_combat"
    /\ combats = 2
    /\ Len(draw_pile) + Len(hand) = Len(master_deck)
    /\ player.cards_played_this_combat = 0

Has(e, st) == st \in DOMAIN e.status_effects /\ e.status_effects[st] > 0
Stacks(e, st) == IF st \in DOMAIN e.status_effects THEN e.status_effects[st] ELSE 0
Floor15(x) == (x * 3) \div 2
Floor075(x) == (x * 3) \div 4

\* Block and HP of an entity after one hit of x: the block absorbs what it
\* can, the rest comes off the HP, which stops at 0.
AfterHit(e, x) ==
    LET absorbed == IF e.block < x THEN e.block ELSE x
        hp == e.current_hp - (x - absorbed)
    IN  [e EXCEPT !.block = @ - absorbed, !.current_hp = IF hp < 0 THEN 0 ELSE hp]

RECURSIVE AfterHits(_, _, _)
AfterHits(e, x, k) == IF k = 0 THEN e ELSE AfterHits(AfterHit(e, x), x, k - 1)

\* The enemies a Damage effect was aimed at
Aimed == IF last.target.kind = "entity" THEN {last.target.ref[2]}
         ELSE {last.target.list[j][2] : j \in 1..Len(last.target.list)}

\* C16: every hit of a player's Damage effect on every target is base damage
\* plus the player's Strength, times 1.5 rounded down when the target is
\* Vulnerable, then times 0.75 rounded down when the player is Weak; the
\* target's block absorbs what it can and the rest comes off the target's
\* HP, which stops at 0.  Enemies not aimed at and the player are unchanged.
C16_PlayerDamageOrder ==
    [][last'.op = "damage"
          => LET x == last'.amount + Stacks(player, "STRENGTH")
                 hit(e) == LET v == IF Has(e, "VULNERABLE") THEN Floor15(x) ELSE x
                           IN  IF Has(player, "WEAK") THEN Floor075(v) ELSE v
             IN  /\ player' = player
                 /\ \A i \in 1..Len(enemies) :
                       enemies'[i] = IF i \in Aimed'
                                     THEN AfterHits(enemies[i], hit(enemies[i]), last'.times)
                                     ELSE enemies[i]]_vars

\* C16 witness: a Weak player with Strength hit a Vulnerable enemy twice with
\* a total of 10, where the two orders of rounding differ, took its block
\* away and lowered its HP.
C16_Witness ==
    /\ last.op = "damage"
    /\ last.times = 2
    /\ last.amount + Stacks(player, "STRENGTH") = 10
    /\ Has(player, "WEAK")
    /\ Has(enemies[1], "VULNERABLE")
    /\ enemies[1].block = 0
    /\ enemies[1].current_hp > 0 /\ enemies[1].current_hp < enemies[1].max_hp

SingleHit ==
    /\ last.times = 1
    /\ last.target.kind = "entity"
    /\ \/ last.op = "damage"
       \/ last.op = "intent" /\ ~IsNone(enemies[1].intent.damage)

\* C17 as claimed: with Weak on the source and Vulnerable on the target, one
\* hit with base damage D and Strength S against block B takes
\* min(B, floor(floor((D+S)*0.75)*1.5)) off the block and the rest off the
\* HP, for a player's Damage effect and for an enemy's attack intent alike.
C17_DamageOrderInvariant ==
    [][SingleHit'
          => /\ (last'.op = "damage" /\ Has(player, "WEAK") /\ Has(enemies[1], "VULNERABLE"))
                   => enemies'[1] =
                         AfterHit(enemies[1],
                                  Floor15(Floor075(last'.amount + Stacks(player, "STRENGTH"))))
             /\ (last'.op = "intent" /\ Has(enemies[1], "WEAK") /\ Has(player, "VULNERABLE"))
                   => /\ player'.block =
                            AfterHit(player, Floor15(Floor075(last'.amount
                                        + Stacks(enemies[1], "STRENGTH")))).block
                      /\ player'.current_hp =
                            AfterHit(player, Floor15(Floor075(last'.amount
                                        + Stacks(enemies[1], "STRENGTH")))).current_hp]_vars

\* C17 amended: with Weak on the source and Vulnerable on the target, one hit
\* with base damage D and Strength S against block B takes X off block and
\* HP (block first, HP stopping at 0), where X is
\* floor(floor((D+S)*1.5)*0.75) for a player's Damage effect and
\* floor(floor((D+S)*0.75)*1.5) for an enemy's attack intent.
C17_DamageOrderByPath ==
    [][SingleHit'
          => /\ (last'.op = "damage" /\ Has(player, "WEAK") /\ Has(enemies[1], "VULNERABLE"))
                   => enemies'[1] =
                         AfterHit(enemies[1],
                                  Floor075(Floor15(last'.amount + Stacks(player, "STRENGTH"))))
             /\ (last'.op = "intent" /\ Has(enemies[1], "WEAK") /\ Has(player, "VULNERABLE"))
                   => /\ player'.block =
                            AfterHit(player, Floor15(Floor075(last'.amount
                                        + Stacks(enemies[1], "STRENGTH")))).block
                      /\ player'.current_hp =
                            AfterHit(player, Floor15(Floor075(last'.amount
                                        + Stacks(enemies[1], "STRENGTH")))).current_hp]_vars

\* C17 witness: a Weak enemy with Strength 3 attacked a Vulnerable player for
\* 15 (18 in all, where the two orders of rounding differ), broke the block
\* and took HP.
C17_Witness ==
    /\ last.op = "intent"
    /\ last.times = 1
    /\ last.amount + Stacks(enemies[1], "STRENGTH") = 18
    /\ Has(enemies[1], "WEAK")
    /\ Has(player, "VULNERABLE")
    /\ player.block = 0
    /\ player.current_hp = player.max_hp - 9

\* C18: after an enemy's damage intent the player's block and HP are those
\* left by the intent's `times` hits, each of base damage plus the enemy's
\* Strength, times 0.75 rounded down when the enemy is Weak, times 1.5
\* rounded down when the player is Vulnerable, not below 0, absorbed by the
\* block first and then taken from the HP.
C18_IntentDamage ==
    [][(last'.op = "intent" /\ ~IsNone(enemies'[1].intent.damage))
          => LET x == last'.amount + Stacks(enemies[1], "STRENGTH")
                 w == IF Has(enemies[1], "WEAK") THEN Floor075(x) ELSE x
                 v == IF Has(player, "VULNERABLE") THEN Floor15(w) ELSE w
                 after == AfterHits(player, IF v < 0 THEN 0 ELSE v, last'.times)
             IN  /\ player'.block = after.block
                 /\ player'.current_hp = after.current_hp]_vars

Entities == {player} \cup {enemies[i] : i \in 1..Len(enemies)}

\* C19: the player's and every enemy's current HP is between 0 and its max
\* HP and its block is not negative, after every operation that changes HP
\* or block.
C19_HpAndBlockInRange ==
    \A e \in Entities :
        /\ e.current_hp >= 0
        /\ e.current_hp <= e.max_hp
        /\ e.block >= 0

\* C19 witness: a heal larger than the missing HP stopped at max HP.
C19_Witness ==
    /\ last.op = "heal"
    /\ last.amount > EntityHP
    /\ last.target = EntityTarget(PlayerRef)
    /\ player.current_hp = player.max_hp

\* C20: current energy is never negative through any sequence of
\* initialize, start_turn, spend, gain and gain_next_turn with non-negative
\* amounts to gain; spend(a) with a < 0 or a > current returns false and
\* changes nothing, and spend(a) with 0 <= a <= current returns true and
\* takes exactly a off the current energy, leaving the rest as it was.
C20_EnergyNeverNegative ==
    /\ [](energy_system.current_energy >= 0)
    /\ [][last'.op = "spend"
             => LET a == last'.amount
                    cur == energy_system.current_energy
                IN  IF a < 0 \/ a > cur
                    THEN ~last'.ok /\ energy_system' = energy_system
                    ELSE /\ last'.ok
                         /\ energy_system'.current_energy = cur - a
                         /\ energy_system'.max_energy = energy_system.max_energy
                         /\ energy_system'.bonus_energy_next_turn
                               = energy_system.bonus_energy_next_turn]_vars

\* C20 witness: after the energy was set up and partly spent, a spend of
\* more than what was left was refused.
C20_Witness ==
    /\ last.op = "spend"
    /\ ~last.ok
    /\ last.amount > energy_system.current_energy
    /\ energy_system.current_energy > 0
    /\ energy_system.current_energy < energy_system.max_energy

\* C21: start_turn sets the current energy to max energy plus the bonus
\* gathered by gain_next_turn since the previous start_turn and resets the
\* bonus to 0, whatever energy was left; end_turn changes nothing and
\* banks nothing.
C21_TurnStartRefill ==
    [][/\ last'.op = "start_turn"
          => /\ energy_system'.current_energy
                   = energy_system.max_energy + energy_system.bonus_energy_next_turn
             /\ energy_system'.bonus_energy_next_turn = 0
             /\ energy_system'.max_energy = energy_system.max_energy
       /\ last'.op = "end_turn"
          => /\ energy_system' = energy_system
             /\ last'.amount = energy_system.current_energy]_vars

\* C21 witness: after a bonus was booked with gain_next_turn, a turn started
\* with more than max energy and the bonus back at 0.
C21_Witness ==
    /\ last.op = "start_turn"
    /\ steps >= 3
    /\ energy_system.current_energy > energy_system.max_energy
    /\ energy_system.bonus_energy_next_turn = 0

\* The entity a reference names, before and after a step.
EntityAt(t) == IF t[1] = "P" THEN player ELSE enemies[t[2]]
EntityAfter(t) == IF t[1] = "P" THEN player' ELSE enemies'[t[2]]
OtherOf(t) == IF t[1] = "P" THEN EnemyRef(1) ELSE PlayerRef
Debuffs == {"VULNERABLE", "WEAK", "FRAIL", "POISON"}

\* C22: applying a status: a debuff (Vulnerable, Weak, Frail, Poison) aimed at
\* a target holding Artifact takes exactly one Artifact stack off the target
\* and is not applied; in every other case the amount is added to the stacks
\* the target already has of that kind (none counts as 0), without a cap.
\* No other kind, no other field and no other entity changes.
C22_ApplyStatus ==
    [][last'.op \in {"apply_status", "apply_status_to_entity"}
       => LET t == last'.target
              k == last'.kind
              before == EntityAt(t)
              after == EntityAfter(t)
              blocked == k \in Debuffs /\ Stacks(before, "ARTIFACT") > 0
          IN  /\ \A x \in StatusEffectType :
                    Stacks(after, x) =
                       IF blocked
                       THEN (IF x = "ARTIFACT" THEN Stacks(before, x) - 1
                             ELSE Stacks(before, x))
                       ELSE (IF x = k THEN Stacks(before, x) + last'.amount
                             ELSE Stacks(before, x))
              /\ DOMAIN after.status_effects \subseteq StatusEffectType
              /\ after = [before EXCEPT !.status_effects = after.status_effects]
              /\ EntityAfter(OtherOf(t)) = EntityAt(OtherOf(t))
              /\ last'.op = "apply_status_to_entity" => (last'.applied <=> ~blocked)]_vars

\* Poison 3 applied twice to an enemy without Artifact: 6 stacks.
C22_Witness ==
    /\ last.op = "apply_status" /\ last.kind = "POISON" /\ last.amount = 3
    /\ last.target = EnemyRef(1) /\ steps = 2
    /\ Stacks(enemies[1], "POISON") = 6
    /\ ~Has(enemies[1], "ARTIFACT")

\* C23: the status maps of the player and of every enemy hold only kinds with
\* at least one stack: a count that reaches 0, by Artifact consumption, Regen,
\* Poison or the end-of-turn decrement, is removed from the map.
C23_NoEmptyStatus ==
    /\ \A k \in DOMAIN player.status_effects : player.status_effects[k] >= 1
    /\ \A i \in 1..Len(enemies) :
          \A k \in DOMAIN enemies[i].status_effects : enemies[i].status_effects[k] >= 1

\* The player's last Regen stack was used up at the end of the turn and the
\* kind left the map, the Artifact stacks staying.
C23_Witness ==
    /\ last.op = "process_end_of_turn_effects" /\ last.target = PlayerRef /\ steps = 1
    /\ "REGEN" \notin DOMAIN player.status_effects
    /\ Stacks(player, "ARTIFACT") = 2

Durations == {"VULNERABLE", "WEAK", "FRAIL", "INTANGIBLE"}

\* C24: process_end_of_turn_effects adds the Metallicize and the Plated Armor
\* stacks to the block without using them up, heals min(Regen stacks, missing
\* HP) and takes one Regen stack, then takes one stack off each of Vulnerable,
\* Weak, Frail and Intangible (removed at 0); no other kind and no other
\* entity changes.
C24_EndOfTurnEffects ==
    [][last'.op = "process_end_of_turn_effects"
       => LET t == last'.target
              before == EntityAt(t)
              after == EntityAfter(t)
              regen == Stacks(before, "REGEN")
          IN  /\ after.block = before.block + Stacks(before, "METALLICIZE")
                                            + Stacks(before, "PLATED_ARMOR")
              /\ after.current_hp =
                    before.current_hp + Min(regen, before.max_hp - before.current_hp)
              /\ \A x \in StatusEffectType :
                    Stacks(after, x) =
                       IF x \in Durations \cup {"REGEN"}
                       THEN Max(0, Stacks(before, x) - 1)
                       ELSE Stacks(before, x)
              /\ after = [before EXCEPT !.block = after.block,
                                        !.current_hp = after.current_hp,
                                        !.status_effects = after.status_effects]
              /\ EntityAfter(OtherOf(t)) = EntityAt(OtherOf(t))]_vars

\* A wounded player with Metallicize 3, Plated Armor 2 and Regen 2 ended the
\* turn: block 5, two HP back, one Regen and one Weak stack left, Vulnerable
\* gone, Plated Armor still 2.
C24_Witness ==
    /\ last.op = "process_end_of_turn_effects" /\ last.target = PlayerRef /\ steps = 1
    /\ player.block = 5 /\ player.current_hp = LowHP + 2
    /\ Stacks(player, "REGEN") = 1 /\ Stacks(player, "WEAK") = 1
    /\ "VULNERABLE" \notin DOMAIN player.status_effects
    /\ Stacks(player, "PLATED_ARMOR") = 2 /\ Stacks(player, "METALLICIZE") = 3

\* The subscriptions of a kind that were not unsubscribed, as positions in the
\* list of subscribe calls.
Registered(subs, k) ==
    {i \in DOMAIN subs : subs[i].live /\ subs[i].event_type = k}

\* i is called before j: higher priority, or equal priority and subscribed first
Before(subs, i, j) ==
    \/ subs[i].priority > subs[j].priority
    \/ subs[i].priority = subs[j].priority /\ i < j

\* The handlers registered for a kind, in the order in which emit is to call them.
CallOrder(subs, k) ==
    LET R == Registered(subs, k)
        Rank(i) == 1 + Cardinality({j \in R : Before(subs, j, i)})
    IN  [n \in 1..Cardinality(R) |-> subs[CHOOSE i \in R : Rank(i) = n].handler]

\* C25: after any sequence of subscribe and unsubscribe calls, emit calls the
\* handlers registered for the event's kind, higher priority first and
\* handlers of equal priority in subscription order, and no handler registered
\* for another kind.
C25_EmitOrder ==
    [][last'.op = "emit" => last'.invoked = CallOrder(subscriptions, last'.event_type)]_vars

\* C26: unsubscribe(id) removes exactly the registration the id was returned
\* for: every other registration, another registration of the same handler
\* for the same kind included, is still called by emit; an id that was never
\* handed out or was already unsubscribed returns False and changes nothing.
C26_UnsubscribeExact ==
    [][last'.op = "unsubscribe"
       => LET id == last'.handler_id
              known == id + 1 \in DOMAIN subscriptions /\ subscriptions[id + 1].live
          IN  /\ last'.returned = known
              /\ ~known => event_bus' = event_bus
              /\ \A k \in BusKinds : emit(event_bus', k) = CallOrder(subscriptions', k)]_vars

\* The relics whose trigger has an event kind.
MappedRelics(p) == {i \in DOMAIN p.relics : ~IsNone(get_event_type(p.relics[i].data))}

\* The relic holds the id of a subscription of the bus to its trigger's kind.
SubscribedTo(bus, relic) ==
    /\ ~IsNone(relic.event_subscription_id)
    /\ Val(relic.event_subscription_id) \in DOMAIN bus.handler_ids
    /\ bus.handler_ids[Val(relic.event_subscription_id)][1] = Val(get_event_type(relic.data))

StartCombatReturned == last'.op = "start_combat" /\ last'.outcome = "success"

\* C27: when start_combat has run, every relic of the player whose trigger has
\* an event kind is subscribed on the bus to that kind and holds the
\* subscription id; when the combat ends the id is None again and the bus
\* holds no handler that a later event would call.
C27_RelicSubscription ==
    [][/\ StartCombatReturned
          => \A i \in MappedRelics(player') : SubscribedTo(event_bus', player'.relics[i])
       /\ (result = IN_PROGRESS /\ result' # IN_PROGRESS)
          => /\ \A i \in DOMAIN player'.relics :
                   IsNone(player'.relics[i].event_subscription_id)
             /\ \A k \in DOMAIN event_bus'.handlers : event_bus'.handlers[k] = <<>>]_vars

CentennialCounter(p) ==
    {p.relics[i].counter : i \in {j \in DOMAIN p.relics :
                                     p.relics[j].data.id = "centennial_puzzle"}}

\* C28: with Centennial Puzzle owned, the first HP loss of a combat draws 3
\* cards: afterwards the hand holds at least 3 cards, or is full, or no card
\* is left in the draw and discard piles; and start_combat leaves the relic's
\* counter at 0.
C28_CentennialPuzzle ==
    [][/\ (/\ active /\ has_relic(player, "centennial_puzzle")
           /\ player.damage_taken_this_combat = 0
           /\ player'.current_hp < player.current_hp)
          => \/ Len(hand') >= 3
             \/ Len(hand') = MAX_HAND_SIZE
             \/ draw_pile' = <<>> /\ discard_pile' = <<>>
       /\ StartCombatReturned => CentennialCounter(player') \subseteq {0}]_vars

\* C29: with the Anchor owned, the player's block is 10 when start_combat
\* returns.
C29_AnchorBlock ==
    [][(StartCombatReturned /\ has_relic(player', "anchor")) => player'.block = 10]_vars

C31_GainEnergy ==
    [][last'.op = "gain_energy"
       => IF last'.target.ref = PlayerRef
          THEN energy_system'.current_energy
                  = energy_system.current_energy + last'.amount
          ELSE UNCHANGED stateVars]_vars

AllRefs == {PlayerRef} \cup {EnemyRef(i) : i \in 1..Len(enemies)}

\* C32: a Block effect grants the base amount plus the source's Dexterity,
\* times 0.75 rounded down when the source has Frail, and adds it to the block
\* of the target, or of the source when no single target is given, whatever
\* block is already there; no other entity's block changes.
C32_BlockAmount ==
    [][last'.op = "block"
       => LET src == EntityAfter(last'.source)
              b0 == last'.amount + Stacks(src, "DEXTERITY")
              granted == IF Has(src, "FRAIL") THEN Floor075(b0) ELSE b0
              tgt == IF last'.target.kind = "entity" THEN last'.target.ref
                     ELSE last'.source
          IN  /\ EntityAfter(tgt).block = EntityAt(tgt).block + granted
              /\ \A r \in AllRefs \ {tgt} : EntityAfter(r).block = EntityAt(r).block
              /\ \A r \in AllRefs : EntityAfter(r).current_hp = EntityAt(r).current_hp]_vars

\* A player with 10 block, Dexterity 3 and Frail gained int(11 * 0.75) = 8
\* block from a Block effect of 8: 18 block.
C32_Witness ==
    /\ last.op = "block" /\ last.amount = 8 /\ last.source = PlayerRef
    /\ last.target = NoTarget
    /\ Stacks(player, "DEXTERITY") = 3 /\ Has(player, "FRAIL")
    /\ player.block = 18

\* The number of ENEMY_DIED events for enemy i among the events of the last call.
DiedEvents(evs, i) ==
    Cardinality({k \in 1..Len(evs) : evs[k].type = "ENEMY_DIED" /\ evs[k].arg = i})

\* C33: ENEMY_DIED is emitted only for newly dead enemies: a card play or a
\* turn end emits exactly one ENEMY_DIED for each enemy whose HP reached 0 in
\* it, and none for an enemy that was already dead or is still alive.
C33_EnemyDiedOnce ==
    [][last'.op \in {"play_card", "end_player_turn"}
       => \A i \in 1..Len(enemies) :
             DiedEvents(last'.events, i) =
                IF enemies[i].current_hp > 0 /\ enemies'[i].current_hp = 0
                THEN 1 ELSE 0]_vars

\* Stacks of a status after one end-of-turn decrement.
Ticked(e, st) == Max(0, Stacks(e, st) - 1)

\* C34: in an enemy turn the player survives, every enemy that was alive
\* loses one stack of Vulnerable and of Weak (removed at 0), then loses HP
\* equal to its Poison stacks whatever its block (not below 0) and one stack
\* of Poison (removed at 0); when that leaves no enemy alive the result is
\* Victory and no new player turn has started.
C34_EnemyEndOfTurn ==
    [][(/\ last'.op = "end_player_turn" /\ last'.outcome # "failure"
        /\ player'.current_hp > 0)
       => /\ \A i \in 1..Len(enemies) :
                enemies[i].current_hp > 0
                => /\ \A st \in {"VULNERABLE", "WEAK", "POISON"} :
                         /\ Stacks(enemies'[i], st) = Ticked(enemies[i], st)
                         /\ Ticked(enemies[i], st) = 0
                               => st \notin DOMAIN enemies'[i].status_effects
                   /\ enemies'[i].current_hp =
                         Max(0, enemies[i].current_hp - Stacks(enemies[i], "POISON"))
          /\ (\A i \in 1..Len(enemies) : enemies'[i].current_hp = 0)
                => /\ result' = VICTORY
                   /\ turn_number' = turn_number
                   /\ phase' = COMBAT_END]_vars

\* The handlers called at one depth within a stretch of a trace, in call order.
CalledAt(T, from, to, depth) ==
    LET IsCall(e) == e.what = "call" /\ e.depth = depth
        calls == SelectSeq(SubSeq(T, from, to), IsCall)
    IN  [n \in 1..Len(calls) |-> calls[n].handler]

\* The position at which the call at position p of a trace returns (0: never).
ReturnOf(T, p) ==
    LET R == {q \in (p + 1)..Len(T) : /\ T[q].what = "return"
                                       /\ T[q].depth = T[p].depth
                                       /\ T[q].handler = T[p].handler}
    IN  IF R = {} THEN 0 ELSE CHOOSE q \in R : \A r \in R : q <= r

\* C35: emit is synchronous and re-entrant: it calls every handler of the
\* event in order and returns after the last one has returned, and when a
\* handler emits an event, every handler of that event is called and returns
\* before the emitting handler returns and so before the next handler of the
\* outer event is called.
C35_NestedEmit ==
    [][last'.op = "emit"
       => LET T == last'.calls
          IN  /\ CalledAt(T, 1, Len(T), 0) = emit(event_bus, last'.event_type)
              /\ \A p \in 1..Len(T) :
                    T[p].what = "call"
                    => LET q == ReturnOf(T, p)
                           nested == handler_emits(T[p].handler, T[p].event_type)
                       IN  /\ q > p
                           /\ \A r \in (p + 1)..(q - 1) : T[r].depth > T[p].depth
                           /\ CalledAt(T, p + 1, q - 1, T[p].depth + 1) =
                                 IF IsNone(nested) THEN <<>>
                                 ELSE emit(event_bus, Val(nested))
                           /\ \A r \in (p + 1)..(q - 1) :
                                 T[r].depth = T[p].depth + 1
                                 => T[r].event_type = Val(nested)]_vars

\* "g" (priority 5) and "f" were subscribed to COMBAT_START and "f" to
\* HP_LOST; emitting COMBAT_START called g, inside it f for HP_LOST, and
\* after g returned f for COMBAT_START.
C35_Witness ==
    /\ last.op = "emit" /\ last.event_type = "COMBAT_START"
    /\ last.calls = <<TraceEntry("call", "g", "COMBAT_START", 0),
                      TraceEntry("call", "f", "HP_LOST", 1),
                      TraceEntry("return", "f", "HP_LOST", 1),
                      TraceEntry("return", "g", "COMBAT_START", 0),
                      TraceEntry("call", "f", "COMBAT_START", 0),
                      TraceEntry("return", "f", "COMBAT_START", 0)>>

HasTurnOverride(o) == ~IsNone(cards[o].cost_this_turn)

\* C36: after DeckManager.end_turn no card of the draw pile, the hand, the
\* discard pile or the exhaust pile carries a per-turn cost override.
C36_TurnOverridesCleared ==
    last.op = "end_turn"
    => \A o \in PileOf(draw_pile) \cup PileOf(hand) \cup PileOf(discard_pile)
                \cup PileOf(exhaust_pile) : ~HasTurnOverride(o)

\* The amounts carried by the HP_LOST events among the events of a call.
LostAmounts(evs) ==
    LET IsLost(e) == e.type = "HP_LOST"
        lost == SelectSeq(evs, IsLost)
    IN  [n \in 1..Len(lost) |-> lost[n].arg]

RECURSIVE SumSeq(_)
SumSeq(q) == IF q = <<>> THEN 0 ELSE Head(q) + SumSeq(Tail(q))

\* C37: an enemy turn in which Player.take_damage removes HP completes
\* normally and delivers HP_LOST events whose amounts, each at least 1, add
\* up to the HP the player lost; an enemy turn in which every hit is blocked
\* delivers no HP_LOST event.
C37_TakeDamage ==
    [][(last'.op = "end_player_turn" /\ last'.outcome # "failure")
       => LET lost == LostAmounts(last'.events)
          IN  /\ last'.outcome = "success"
              /\ \A n \in 1..Len(lost) : lost[n] >= 1
              /\ SumSeq(lost) = player.current_hp - player'.current_hp]_vars

\* C38: every event a CombatManager emits is delivered on the bus object
\* that get_event_bus() returns at that moment, so to the handlers subscribed
\* on that bus, also after reset_event_bus() was called since the manager
\* was constructed.
C38_ManagerBus ==
    [][last'.op = "manager_emit"
       => /\ last'.bus = global_event_bus
          /\ last'.invoked = emit(buses[global_event_bus], last'.event_type)]_vars

\* The block the Block effects of a card grant when the player is their source.
RECURSIVE BlockGranted(_, _)
BlockGranted(effs, p) ==
    IF effs = <<>> THEN 0
    ELSE (IF Head(effs).kind = "Block"
          THEN LET b == Head(effs).amount + Stacks(p, "DEXTERITY")
               IN  IF Has(p, "FRAIL") THEN Floor075(b) ELSE b
          ELSE 0) + BlockGranted(Tail(effs), p)

\* C39: playing a card never increases the block of an enemy, and the block
\* its Block effects grant is added to the player's block, whatever the
\* card targets.
C39_BlockGoesToPlayer ==
    [][(last'.op = "play_card" /\ last'.outcome = "success")
       => /\ \A i \in 1..Len(enemies) : enemies'[i].block <= enemies[i].block
          /\ player'.block =
                player.block + BlockGranted(CardEffects(cards[last'.card]), player)]_vars

\* C40: while the effects of a played card resolve and when CARD_PLAYED is
\* emitted the card is in none of the four piles, and when play_card returns
\* it is not in the hand or the draw pile: a Draw effect of the card, with or
\* without a reshuffle, cannot bring it back.
C40_PlayedCardInLimbo ==
    [][(last'.op = "play_card" /\ last'.outcome = "success")
       => /\ Len(last'.seen) = 2
          /\ \A k \in 1..Len(last'.seen) : last'.card \notin last'.seen[k]
          /\ last'.card \notin PileOf(hand') \cup PileOf(draw_pile')]_vars

=============================================================================
